---- MODULE Spec2Model ----
(***************************************************************************)
(* Supplier compliance monitor: the store of suppliers and compliance      *)
(* records, the ingestion and weather-adjudication handlers of the API,    *)
(* the metric classifier, the adverse-weather detector and the             *)
(* justification generator.                                                *)
(*                                                                         *)
(* Conventions.  Text that the code inspects character by character (the   *)
(* weather description, the main category, a condition type, a metric      *)
(* name, the delivery_date string) is a sequence of one-character strings; *)
(* the literal parts of an f-string are single atoms of such a sequence.   *)
(* Quantities (mm, m/s, degrees, metric results) are floats in the code    *)
(* and are kept here in tenths: 12.0 mm is 120.  An optional value is a    *)
(* sequence of length at most one: <<>> is Python's None (or a missing     *)
(* dictionary key), <<v>> is the value v.                                  *)
(***************************************************************************)
EXTENDS Integers, Sequences, FiniteSets, TLC

None == <<>>
Some(v) == <<v>>

(***************************************************************************)
(* String helpers: str.lower, str.title, str.replace('_', ' '), the `in`   *)
(* substring test and the float formatting of an f-string.                 *)
(***************************************************************************)
LowerAlpha == <<"a","b","c","d","e","f","g","h","i","j","k","l","m",
                "n","o","p","q","r","s","t","u","v","w","x","y","z">>
UpperAlpha == <<"A","B","C","D","E","F","G","H","I","J","K","L","M",
                "N","O","P","Q","R","S","T","U","V","W","X","Y","Z">>

\* the letter maps of str.lower / str.upper
LowerMap == [c \in {UpperAlpha[i] : i \in 1..26} |->
                LowerAlpha[CHOOSE i \in 1..26 : UpperAlpha[i] = c]]
UpperMap == [c \in {LowerAlpha[i] : i \in 1..26} |->
                UpperAlpha[CHOOSE i \in 1..26 : LowerAlpha[i] = c]]

IsUpper(c) == c \in DOMAIN LowerMap
IsLower(c) == c \in DOMAIN UpperMap
IsAlpha(c) == IsUpper(c) \/ IsLower(c)

LowerChar(c) == IF IsUpper(c) THEN LowerMap[c] ELSE c
UpperChar(c) == IF IsLower(c) THEN UpperMap[c] ELSE c

\* s.lower()
str_lower(s) == [i \in 1..Len(s) |-> LowerChar(s[i])]

\* s.title(): a letter that follows a non-letter is upper-cased, every other letter lower-cased
str_title(s) ==
    [i \in 1..Len(s) |->
        IF i = 1 \/ ~IsAlpha(s[i - 1]) THEN UpperChar(s[i]) ELSE LowerChar(s[i])]

\* s.replace('_', ' ')
replace_underscore(s) == [i \in 1..Len(s) |-> IF s[i] = "_" THEN " " ELSE s[i]]

\* k in s
Contains(s, k) == \E i \in 0..(Len(s) - Len(k)) : SubSeq(s, i + 1, i + Len(k)) = k

Digits == <<"0","1","2","3","4","5","6","7","8","9">>
Digit(d) == Digits[d + 1]
DigitMap == [c \in {Digits[i] : i \in 1..10} |-> (CHOOSE i \in 1..10 : Digits[i] = c) - 1]

RECURSIVE NatStr(_)
NatStr(n) == IF n < 10 THEN <<Digit(n)>> ELSE NatStr(n \div 10) \o <<Digit(n % 10)>>

\* f"{x}" of a non-negative float x held in tenths: 120 is "12.0", 35 is "3.5"
FloatStr(x) == NatStr(x \div 10) \o <<".">> \o <<Digit(x % 10)>>

(***************************************************************************)
(* weather_service.py                                                      *)
(***************************************************************************)
\* self.adverse_conditions, in the dictionary's order
adverse_conditions == <<
    [type |-> <<"t","h","u","n","d","e","r","s","t","o","r","m">>,
     keywords |-> << <<"t","h","u","n","d","e","r","s","t","o","r","m">>,
                     <<"s","t","o","r","m">> >>],
    [type |-> <<"h","e","a","v","y","_","r","a","i","n">>,
     keywords |-> << <<"h","e","a","v","y"," ","r","a","i","n">>,
                     <<"e","x","t","r","e","m","e"," ","r","a","i","n">>,
                     <<"h","e","a","v","y"," ","i","n","t","e","n","s","i","t","y"," ","r","a","i","n">> >>],
    [type |-> <<"s","n","o","w">>,
     keywords |-> << <<"s","n","o","w">>,
                     <<"b","l","i","z","z","a","r","d">>,
                     <<"h","e","a","v","y"," ","s","n","o","w">> >>],
    [type |-> <<"f","o","g">>,
     keywords |-> << <<"f","o","g">>, <<"m","i","s","t">> >>],
    [type |-> <<"e","x","t","r","e","m","e","_","w","e","a","t","h","e","r">>,
     keywords |-> << <<"t","o","r","n","a","d","o">>,
                     <<"h","u","r","r","i","c","a","n","e">>,
                     <<"t","y","p","h","o","o","n">> >>] >>

severity_keywords == <<
    <<"e","x","t","r","e","m","e">>, <<"h","e","a","v","y">>, <<"s","e","v","e","r","e">>,
    <<"t","h","u","n","d","e","r","s","t","o","r","m">>, <<"s","n","o","w">>,
    <<"b","l","i","z","z","a","r","d">> >>

\* _mock_weather_data(): the synthetic clear-sky observation
mock_weather_data ==
    [kind |-> "dict",
     data |-> Some(<< [main |-> <<"C","l","e","a","r">>,
                  description |-> <<"c","l","e","a","r"," ","s","k","y">>,
                  temp |-> 250, wind_speed |-> 35,
                  rain |-> None, snow |-> None] >>),
     mock |-> TRUE]

\* a or b on numbers: 0 is false
PyOr(a, b) == IF a = 0 THEN b ELSE a
\* d.get(k, 0) on a precipitation dictionary [h1, h3]; a None entry is false like 0
GetOr0(v) == IF v = None THEN 0 ELSE v[1]
\* truth value of the rain / snow entry: None and the empty dictionary are false
Truthy(d) == d # None /\ ~(d[1].h1 = None /\ d[1].h3 = None)

\* the keyword loop: one finding per (condition_type, keyword) hit, in table order
RECURSIVE KeywordScan(_, _, _, _)
KeywordScan(ci, ki, weather_desc, weather_main) ==
    IF ci > Len(adverse_conditions) THEN <<>>
    ELSE IF ki > Len(adverse_conditions[ci].keywords)
         THEN KeywordScan(ci + 1, 1, weather_desc, weather_main)
         ELSE LET keyword == adverse_conditions[ci].keywords[ki]
                  hit == Contains(weather_desc, keyword) \/ Contains(weather_main, keyword)
              IN  (IF hit THEN << [type |-> adverse_conditions[ci].type,
                                    description |-> weather_desc,
                                    main |-> weather_main] >>
                          ELSE <<>>)
                  \o KeywordScan(ci, ki + 1, weather_desc, weather_main)

\* variant of RainFinding with the threshold at 20 mm
RainFindingAbove20(rain) ==
    IF Truthy(rain)
    THEN LET rain_1h == PyOr(GetOr0(rain[1].h1), GetOr0(rain[1].h3))
         IN  IF rain_1h > 200
             THEN << [type |-> <<"h","e","a","v","y","_","r","a","i","n">>,
                      description |-> <<"Heavy rainfall: ">> \o FloatStr(rain_1h) \o <<"mm">>,
                      measurement |-> rain_1h] >>
             ELSE <<>>
    ELSE <<>>

\* the rain check of analyze_adverse_weather: more than 10 mm
RainFinding(rain) ==
    IF Truthy(rain)
    THEN LET rain_1h == PyOr(GetOr0(rain[1].h1), GetOr0(rain[1].h3))
         IN  IF rain_1h > 100
             THEN << [type |-> <<"h","e","a","v","y","_","r","a","i","n">>,
                      description |-> <<"Heavy rainfall: ">> \o FloatStr(rain_1h) \o <<"mm">>,
                      measurement |-> rain_1h] >>
             ELSE <<>>
    ELSE <<>>

SnowFinding(snow) ==
    IF Truthy(snow)
    THEN LET snow_1h == PyOr(GetOr0(snow[1].h1), GetOr0(snow[1].h3))
         IN  IF snow_1h > 0
             THEN << [type |-> <<"s","n","o","w">>,
                      description |-> <<"Snowfall: ">> \o FloatStr(snow_1h) \o <<"mm">>,
                      measurement |-> snow_1h] >>
             ELSE <<>>
    ELSE <<>>

WindFinding(wind_speed) ==
    IF wind_speed > 150
    THEN << [type |-> <<"s","t","r","o","n","g","_","w","i","n","d">>,
             description |-> <<"Strong winds: ">> \o FloatStr(wind_speed) \o <<" m/s">>,
             measurement |-> wind_speed] >>
    ELSE <<>>

HasMeasurement(condition) == "measurement" \in DOMAIN condition

\* condition_descriptions of _generate_justification
ConditionDescription(condition) ==
    IF HasMeasurement(condition) THEN condition.description
    ELSE str_title(replace_underscore(condition.type))

\* ", ".join(xs)
RECURSIVE JoinComma(_)
JoinComma(xs) ==
    IF xs = <<>> THEN <<>>
    ELSE IF Len(xs) = 1 THEN xs[1]
    ELSE xs[1] \o <<", ">> \o JoinComma(Tail(xs))

\* variant of generate_justification that joins every description with ", "
generate_justification_comma_only(adverse_conditions_found, weather_desc) ==
    IF adverse_conditions_found = <<>>
    THEN <<"No adverse weather conditions detected that would impact delivery.">>
    ELSE LET condition_descriptions ==
                 [i \in 1..Len(adverse_conditions_found) |->
                     ConditionDescription(adverse_conditions_found[i])]
         IN  IF Len(condition_descriptions) = 1
             THEN <<"Delivery delay justified due to adverse weather: ">>
                  \o condition_descriptions[1]
                  \o <<". Weather conditions: ">> \o weather_desc \o <<".">>
             ELSE <<"Delivery delay justified due to multiple adverse weather conditions: ">>
                  \o JoinComma(condition_descriptions)
                  \o <<". Weather conditions: ">> \o weather_desc \o <<".">>

generate_justification(adverse_conditions_found, weather_desc) ==
    IF adverse_conditions_found = <<>>
    THEN <<"No adverse weather conditions detected that would impact delivery.">>
    ELSE LET condition_descriptions ==
                 [i \in 1..Len(adverse_conditions_found) |->
                     ConditionDescription(adverse_conditions_found[i])]
             n == Len(condition_descriptions)
         IN  IF n = 1
             THEN <<"Delivery delay justified due to adverse weather: ">>
                  \o condition_descriptions[1]
                  \o <<". Weather conditions: ">> \o weather_desc \o <<".">>
             ELSE <<"Delivery delay justified due to multiple adverse weather conditions: ">>
                  \o JoinComma(SubSeq(condition_descriptions, 1, n - 1))
                  \o <<" and ">> \o condition_descriptions[n]
                  \o <<". Weather conditions: ">> \o weather_desc \o <<".">>

\* variant of Severity that looks at the number of findings first
SeverityCountFirst(adverse_conditions_found, weather_desc) ==
    IF Len(adverse_conditions_found) > 1 THEN "medium"
    ELSE IF Len(adverse_conditions_found) > 0
    THEN IF \E i \in 1..Len(severity_keywords) : Contains(weather_desc, severity_keywords[i])
         THEN "high" ELSE "low"
    ELSE "none"

Severity(adverse_conditions_found, weather_desc) ==
    IF Len(adverse_conditions_found) > 0
    THEN IF \E i \in 1..Len(severity_keywords) : Contains(weather_desc, severity_keywords[i])
         THEN "high"
         ELSE IF Len(adverse_conditions_found) > 1 THEN "medium" ELSE "low"
    ELSE "none"

\* "raised" stands for the IndexError of weather_data['data'][0] on an empty list
AnalysisRaised == [raised |-> "IndexError"]

analyze_adverse_weather(weather_data) ==
    IF weather_data.kind # "dict" \/ weather_data.data = None
    THEN [has_adverse_weather |-> FALSE,
          conditions |-> <<>>,
          severity |-> "none",
          justification |-> <<"No weather data available">>]
    ELSE IF weather_data.data[1] = <<>> THEN AnalysisRaised
    ELSE LET weather_info == weather_data.data[1][1]
             weather_desc == str_lower(weather_info.description)
             weather_main == str_lower(weather_info.main)
             wind_speed == weather_info.wind_speed
             adverse_conditions_found ==
                 KeywordScan(1, 1, weather_desc, weather_main)
                 \o RainFinding(weather_info.rain)
                 \o SnowFinding(weather_info.snow)
                 \o WindFinding(wind_speed)
         IN  [has_adverse_weather |-> Len(adverse_conditions_found) > 0,
              conditions |-> adverse_conditions_found,
              severity |-> Severity(adverse_conditions_found, weather_desc),
              justification |-> generate_justification(adverse_conditions_found, weather_desc),
              weather_description |-> weather_desc,
              temperature |-> weather_info.temp,
              wind_speed |-> wind_speed,
              mock_data |-> weather_data.mock]

(***************************************************************************)
(* The store: the suppliers and compliance_records tables (models.py).     *)
(* A table is a function from the primary keys in use to rows; keys come   *)
(* from a sequence and are never reused.                                   *)
(***************************************************************************)
VARIABLES suppliers, records, next_supplier_id, next_record_id, last

vars == <<suppliers, records, next_supplier_id, next_record_id, last>>

\* SupplierBase.compliance_score default
DefaultScore == 100

\* bounds of the model: rows ever inserted in each table, observations per ingest
MaxSuppliers == 2
MaxRecords == 2
MaxBatch == 2

\* the row a table holds under key id after an insert / update
Put(table, id, row) == [k \in DOMAIN table \cup {id} |-> IF k = id THEN row ELSE table[k]]
Remove(table, id) == [k \in DOMAIN table \ {id} |-> table[k]]

HttpError(code, detail) == [code |-> code, detail |-> detail]

(***************************************************************************)
(* routers/suppliers.py: supplier CRUD                                     *)
(***************************************************************************)
\* create_supplier(supplier): supplier is [name, country, compliance_score (optional), last_audit]
create_supplier(S, nid, supplier) ==
    IF \E id \in DOMAIN S : S[id].name = supplier.name
    THEN [suppliers |-> S, next_supplier_id |-> nid,
          response |-> HttpError(400, "Supplier with name already exists")]
    ELSE LET db_supplier ==
                 [name |-> supplier.name,
                  country |-> supplier.country,
                  compliance_score |-> IF supplier.compliance_score = None
                                       THEN DefaultScore
                                       ELSE supplier.compliance_score[1],
                  last_audit |-> supplier.last_audit]
         IN  [suppliers |-> Put(S, nid, db_supplier), next_supplier_id |-> nid + 1,
              response |-> [code |-> 201, id |-> nid, supplier |-> db_supplier]]

\* setattr(supplier, field, value) for every field of update_data (exclude_unset)
ApplyUpdate(row, update_data) ==
    [f \in DOMAIN row |-> IF f \in DOMAIN update_data THEN update_data[f] ELSE row[f]]

\* variant of update_supplier on a table without the unique index on name
update_supplier_without_unique_index(S, supplier_id, update_data) ==
    IF supplier_id \notin DOMAIN S
    THEN [suppliers |-> S, response |-> HttpError(404, "Supplier not found")]
    ELSE LET row == ApplyUpdate(S[supplier_id], update_data)
         IN  [suppliers |-> Put(S, supplier_id, row),
              response |-> [code |-> 200, id |-> supplier_id, supplier |-> row]]

\* update_supplier(supplier_id, supplier_update); the unique index on name
\* (models.py) makes the commit fail when another supplier holds the new name
update_supplier(S, supplier_id, update_data) ==
    IF supplier_id \notin DOMAIN S
    THEN [suppliers |-> S, response |-> HttpError(404, "Supplier not found")]
    ELSE LET row == ApplyUpdate(S[supplier_id], update_data)
         IN  IF \E id \in DOMAIN S \ {supplier_id} : S[id].name = row.name
             THEN [suppliers |-> S, response |-> HttpError(500, "IntegrityError")]
             ELSE [suppliers |-> Put(S, supplier_id, row),
                   response |-> [code |-> 200, id |-> supplier_id, supplier |-> row]]

\* delete_supplier(supplier_id); the relationship has no delete cascade, so the
\* session sets supplier_id of the supplier's records to NULL, which the NOT NULL
\* column refuses at commit
delete_supplier(S, R, supplier_id) ==
    IF supplier_id \notin DOMAIN S
    THEN [suppliers |-> S, records |-> R, response |-> HttpError(404, "Supplier not found")]
    ELSE IF \E rid \in DOMAIN R : R[rid].supplier_id = supplier_id
         THEN [suppliers |-> S, records |-> R, response |-> HttpError(500, "IntegrityError")]
         ELSE [suppliers |-> Remove(S, supplier_id), records |-> R,
               response |-> [code |-> 200, message |-> "deleted successfully"]]

\* get_supplier(supplier_id): the supplier with its compliance records
get_supplier(S, R, supplier_id) ==
    IF supplier_id \notin DOMAIN S
    THEN [response |-> HttpError(404, "Supplier not found")]
    ELSE [response |->
             [code |-> 200, id |-> supplier_id, supplier |-> S[supplier_id],
              compliance_records |->
                  {[id |-> rid, row |-> R[rid]] :
                      rid \in {k \in DOMAIN R : R[k].supplier_id = supplier_id}}]]

(***************************************************************************)
(* ai_service.py: the advisory opinion.  The collaborator's raw outcome is *)
(* [kind |-> "raises", message], [kind |-> "unparsable"] (json.loads       *)
(* fails) or [kind |-> "json", value] with the parsed document.  A JSON    *)
(* object is a record with json |-> "object"; a JSON value is tagged with  *)
(* its type t.                                                             *)
(***************************************************************************)
Num(n) == [t |-> "number", v |-> n]

\* the document substituted when json.loads fails
ParseFallback ==
    [json |-> "object",
     compliance_patterns |-> <<"Unable to parse detailed patterns">>,
     non_compliance_categories |-> <<"Analysis error">>,
     risk_assessment |-> Some("medium"),
     key_issues |-> <<"Data analysis incomplete">>,
     compliance_score_suggestion |-> Some(Num(70)),
     summary |-> "Analysis could not be completed due to parsing error"]

\* variant of ApiFallback that answers the parse fallback
ApiFallbackAsParseFallback(message) ==
    [json |-> "object",
     compliance_patterns |-> <<"Unable to parse detailed patterns">>,
     non_compliance_categories |-> <<"Analysis error">>,
     risk_assessment |-> Some("medium"),
     key_issues |-> <<"Data analysis incomplete">>,
     compliance_score_suggestion |-> Some(Num(70)),
     summary |-> "Analysis could not be completed due to parsing error"]

\* the document returned when the API call raises
ApiFallback(message) ==
    [json |-> "object",
     compliance_patterns |-> <<"API analysis unavailable">>,
     non_compliance_categories |-> <<"Service error">>,
     risk_assessment |-> Some("unknown"),
     key_issues |-> << <<"AI analysis failed: ", message>> >>,
     compliance_score_suggestion |-> Some(Num(70)),
     summary |-> "AI analysis temporarily unavailable"]

analyze_compliance_data(ai_raw) ==
    IF ai_raw.kind = "raises" THEN ApiFallback(ai_raw.message)
    ELSE IF ai_raw.kind = "unparsable" THEN ParseFallback
    ELSE ai_raw.value

(***************************************************************************)
(* routers/compliance.py                                                   *)
(***************************************************************************)
delivery_time == <<"d","e","l","i","v","e","r","y","_","t","i","m","e">>
lead_time == <<"l","e","a","d","_","t","i","m","e">>
quality_score == <<"q","u","a","l","i","t","y","_","s","c","o","r","e">>
quality_rating == <<"q","u","a","l","i","t","y","_","r","a","t","i","n","g">>

\* dates of the observations
D1 == [year |-> 2024, month |-> 8, day |-> 8]
D2 == [year |-> 2024, month |-> 8, day |-> 9]

\* observations a caller uploads: [metric, date_recorded, result, expected_value, status]
LateDelivery ==
    [metric |-> delivery_time, date_recorded |-> D1, result |-> 60,
     expected_value |-> Some(50), status |-> "non-compliant"]
LowQuality ==
    [metric |-> quality_score, date_recorded |-> D2, result |-> 985,
     expected_value |-> Some(990), status |-> "non-compliant"]
DefectsExcused ==
    [metric |-> <<"d","e","f","e","c","t","_","r","a","t","e">>, date_recorded |-> D1,
     result |-> 30, expected_value |-> None, status |-> "excused-weather"]
OnTimeLate ==
    [metric |-> <<"o","n","_","t","i","m","e","_","d","e","l","i","v","e","r","y">>,
     date_recorded |-> D1, result |-> 960, expected_value |-> Some(950), status |-> "late"]
LowQualityAsCompliant ==
    [metric |-> quality_score, date_recorded |-> D1, result |-> 985,
     expected_value |-> Some(990), status |-> "compliant"]

\* an observation the classifier finds compliant
PunctualDelivery ==
    [metric |-> delivery_time, date_recorded |-> D1, result |-> 50,
     expected_value |-> Some(50), status |-> "non-compliant"]

RecordInputs == {LateDelivery, LowQuality, DefectsExcused}
SingleRecordInputs == {OnTimeLate, LowQualityAsCompliant}
AllObservations == RecordInputs \cup SingleRecordInputs \cup {PunctualDelivery}

\* variant of status_value that compares the metric name as written
status_value_case_sensitive(record_data) ==
    IF record_data.expected_value # None
    THEN IF record_data.metric \in {delivery_time, lead_time}
         THEN IF record_data.result <= record_data.expected_value[1]
              THEN "compliant" ELSE "non-compliant"
         ELSE IF record_data.metric \in {quality_score, quality_rating}
         THEN IF record_data.result >= record_data.expected_value[1]
              THEN "compliant" ELSE "non-compliant"
         ELSE record_data.status
    ELSE record_data.status

\* variant of status_value that never falls back to the caller's status
status_value_without_fallback(record_data) ==
    LET metric_lower == str_lower(record_data.metric)
        expected == IF record_data.expected_value # None
                    THEN record_data.expected_value[1] ELSE 0
    IN  IF metric_lower \in {quality_score, quality_rating}
        THEN IF record_data.result >= expected THEN "compliant" ELSE "non-compliant"
        ELSE IF record_data.result <= expected THEN "compliant" ELSE "non-compliant"

\* the status a record is stored with by check_compliance (lines 47-58)
status_value(record_data) ==
    LET metric_lower == str_lower(record_data.metric)
    IN  IF record_data.expected_value # None
        THEN IF metric_lower \in {delivery_time, lead_time}
             THEN IF record_data.result <= record_data.expected_value[1]
                  THEN "compliant" ELSE "non-compliant"
             ELSE IF metric_lower \in {quality_score, quality_rating}
             THEN IF record_data.result >= record_data.expected_value[1]
                  THEN "compliant" ELSE "non-compliant"
             ELSE record_data.status
        ELSE record_data.status

\* status_value tabulated over the observations above
StatusTable == [r \in AllObservations |-> status_value(r)]
StatusOf(record_data) ==
    IF record_data \in AllObservations THEN StatusTable[record_data]
    ELSE status_value(record_data)

\* ComplianceRecordModel(...) as staged by check_compliance
StagedRecord(supplier_id, record_data) ==
    [supplier_id |-> supplier_id,
     metric |-> record_data.metric,
     date_recorded |-> record_data.date_recorded,
     result |-> record_data.result,
     expected_value |-> record_data.expected_value,
     status |-> StatusOf(record_data),
     ai_analysis |-> None,
     weather_data |-> None,
     weather_justification |-> None]

\* variant of ClampScore without the lower bound
ClampScoreFromAbove(suggested_score) ==
    IF suggested_score < 100 THEN suggested_score ELSE 100

\* max(0, min(100, suggested_score))
ClampScore(suggested_score) ==
    LET m == IF suggested_score < 100 THEN suggested_score ELSE 100
    IN  IF m > 0 THEN m ELSE 0

\* what the database does with the handler's commit and the refreshes after it
StorageOk == "ok"
CommitFails == "commit fails"
RefreshFails == "refresh fails"
StorageOutcomes == {StorageOk, CommitFails, RefreshFails}

\* check_compliance(compliance_request): request is [supplier_id, compliance_data];
\* ai_raw is the collaborator's outcome, storage the database's.  Any exception
\* inside the try block is answered by rollback and a 500; the refreshes of the
\* committed rows are inside the try block too, after the commit.
check_compliance(S, R, nrid, request, ai_raw, storage) ==
    LET unchanged(response) ==
            [suppliers |-> S, records |-> R, next_record_id |-> nrid, response |-> response]
    IN
    IF request.supplier_id \notin DOMAIN S
    THEN unchanged(HttpError(404, "Supplier not found"))
    ELSE
    LET supplier == S[request.supplier_id]
        n == Len(request.compliance_data)
        ai_analysis == analyze_compliance_data(ai_raw)
        created_records ==
            [i \in 1..n |->
                [StagedRecord(request.supplier_id, request.compliance_data[i])
                    EXCEPT !.ai_analysis = Some(ai_analysis)]]
    IN
    IF ai_analysis.json # "object"
    THEN unchanged(HttpError(500, "AttributeError"))     \* ai_analysis.get on a non-dict
    ELSE
    LET suggested_score ==
            IF ai_analysis.compliance_score_suggestion = None
            THEN Num(supplier.compliance_score)
            ELSE ai_analysis.compliance_score_suggestion[1]
    IN
    IF suggested_score.t # "number"
    THEN unchanged(HttpError(500, "TypeError"))          \* min(100, <not a number>)
    ELSE IF storage = CommitFails
    THEN unchanged(HttpError(500, "commit failed"))
    ELSE
    LET score == ClampScore(suggested_score.v)
        R2 == [k \in DOMAIN R \cup (nrid..(nrid + n - 1)) |->
                  IF k \in DOMAIN R THEN R[k] ELSE created_records[k - nrid + 1]]
    IN  [suppliers |-> Put(S, request.supplier_id, [supplier EXCEPT !.compliance_score = score]),
         records |-> R2,
         next_record_id |-> nrid + n,
         response |-> IF storage = RefreshFails
                      THEN HttpError(500, "refresh failed")
                      ELSE
                      [code |-> 200,
                       supplier_id |-> request.supplier_id,
                       compliance_records |->
                           [i \in 1..n |-> [id |-> nrid + i - 1, row |-> created_records[i]]],
                       ai_analysis |-> ai_analysis,
                       updated_compliance_score |-> score]]

\* create_compliance_record(supplier_id, record): the row is the request body as given
create_compliance_record(S, R, nrid, supplier_id, record) ==
    IF supplier_id \notin DOMAIN S
    THEN [records |-> R, next_record_id |-> nrid,
          response |-> HttpError(404, "Supplier not found")]
    ELSE LET db_record ==
                 [supplier_id |-> supplier_id,
                  metric |-> record.metric,
                  date_recorded |-> record.date_recorded,
                  result |-> record.result,
                  expected_value |-> record.expected_value,
                  status |-> record.status,
                  ai_analysis |-> None,
                  weather_data |-> None,
                  weather_justification |-> None]
         IN  [records |-> Put(R, nrid, db_record), next_record_id |-> nrid + 1,
              response |-> [code |-> 200, id |-> nrid, row |-> db_record]]

\* get_supplier_compliance_records(supplier_id, skip = 0, limit = 100, metric):
\* the supplier's records, of one metric when a non-empty metric is given
get_supplier_compliance_records(S, R, supplier_id, metric) ==
    IF supplier_id \notin DOMAIN S
    THEN [response |-> HttpError(404, "Supplier not found")]
    ELSE [response |->
             [code |-> 200,
              records |->
                  {[id |-> rid, row |-> R[rid]] :
                      rid \in {k \in DOMAIN R :
                                  /\ R[k].supplier_id = supplier_id
                                  /\ (metric # None /\ metric[1] # <<>>)
                                        => R[k].metric = metric[1]}}]]

(***************************************************************************)
(* routers/insights.py: get_insights.  The whole body is inside            *)
(* try/except Exception, which answers every exception, the handler's own  *)
(* HTTPException included, with a 500.  start_date is today minus          *)
(* time_period_days; ai_insights is the document of                        *)
(* generate_improvement_insights, whose recommendation strings are not     *)
(* part of the model; neither is the merge of its overall_insights into   *)
(* the trends.  The all-suppliers branch reads at most 20 records of each  *)
(* supplier, more than MaxRecords.  The operator is the handler as called: *)
(* main.py registers GET /suppliers/{supplier_id} before this route.       *)
(***************************************************************************)
get_insights(S, R, supplier_id, start_date, ai_insights) ==
    LET since(d) ==
            \/ d.year > start_date.year
            \/ d.year = start_date.year /\ d.month > start_date.month
            \/ d.year = start_date.year /\ d.month = start_date.month
                   /\ d.day >= start_date.day
        recent(id) == {rid \in DOMAIN R : R[rid].supplier_id = id /\ since(R[rid].date_recorded)}
    IN
    IF supplier_id # None /\ supplier_id[1] # 0 /\ supplier_id[1] \notin DOMAIN S
    THEN [response |-> HttpError(500, "Error generating insights")]
    ELSE
    LET analysed == IF supplier_id # None /\ supplier_id[1] # 0
                    THEN {supplier_id[1]} ELSE DOMAIN S
        analysed_records == UNION {recent(id) : id \in analysed}
        total_records == Cardinality(analysed_records)
        compliant_records ==
            Cardinality({rid \in analysed_records : R[rid].status = "compliant"})
    IN  [response |->
            [code |-> 200,
             insights |-> ai_insights,
             compliance_trends |->
                 IF analysed = {} THEN None
                 ELSE Some([overall_compliance_rate |->
                                IF total_records > 0
                                THEN (compliant_records * 10000 + total_records \div 2)
                                         \div total_records
                                ELSE 0,
                            total_records_analyzed |-> total_records,
                            compliant_records |-> compliant_records,
                            non_compliant_records |-> total_records - compliant_records,
                            suppliers_analyzed |-> Cardinality(analysed)])]]

(***************************************************************************)
(* Results of the weather collaborator (get_historical_weather): the mock  *)
(* document, or whatever JSON the API answered.                            *)
(***************************************************************************)
Observation(main, description, rain_1h, snow_1h, wind_speed) ==
    [kind |-> "dict",
     data |-> Some(<< [main |-> main, description |-> description,
                       temp |-> 180, wind_speed |-> wind_speed,
                       rain |-> IF rain_1h = None THEN None
                                ELSE Some([h1 |-> rain_1h, h3 |-> None]),
                       snow |-> IF snow_1h = None THEN None
                                ELSE Some([h1 |-> snow_1h, h3 |-> None])] >>),
     mock |-> FALSE]

\* "moderate rain", rain.1h = 15.0: one threshold finding
Rain15 ==
    Observation(<<"R","a","i","n">>,
                <<"m","o","d","e","r","a","t","e"," ","r","a","i","n">>, Some(150), None, 60)
\* "heavy intensity rain", rain.1h = 12.0: a keyword finding and a threshold finding
HeavyRain12 ==
    Observation(<<"R","a","i","n">>,
                <<"h","e","a","v","y"," ","i","n","t","e","n","s","i","t","y"," ","r","a","i","n">>,
                Some(120), None, 60)
\* "light rain", rain.1h = 2.0: nothing adverse
LightRain ==
    Observation(<<"R","a","i","n">>, <<"l","i","g","h","t"," ","r","a","i","n">>,
                Some(20), None, 60)
\* a JSON object without 'data', one whose 'data' is empty, JSON null and {}
NoDataResult == [kind |-> "dict", data |-> None, mock |-> FALSE]
EmptyDataResult == [kind |-> "dict", data |-> Some(<<>>), mock |-> FALSE]
NullResult == [kind |-> "none", data |-> None, mock |-> FALSE]
EmptyDictResult == [kind |-> "empty", data |-> None, mock |-> FALSE]

AllWeatherResults ==
    {mock_weather_data, Rain15, HeavyRain12, LightRain,
     NoDataResult, EmptyDataResult, NullResult, EmptyDictResult}

\* what the weather API does with a request: there is no API key, the request
\* raises, or it is answered with a status code and a JSON body
ApiNoKey == [kind |-> "no key"]
ApiRaises == [kind |-> "raises"]
ApiAnswer(status_code, json) == [kind |-> "answer", status_code |-> status_code, json |-> json]

\* variant of get_historical_weather that gives up when the API is of no use
get_historical_weather_or_nothing(api) ==
    IF api.kind = "answer" /\ api.status_code = 200 THEN api.json ELSE NullResult

\* get_historical_weather(lat, lon, date): the delivery_date has been parsed by
\* the handler before, so the strptime inside does not raise
get_historical_weather(api) ==
    IF api.kind = "answer" /\ api.status_code = 200 THEN api.json ELSE mock_weather_data

\* analyze_adverse_weather tabulated over the results above
AnalysisTable == [w \in AllWeatherResults |-> analyze_adverse_weather(w)]
AnalysisOf(weather_data) ==
    IF weather_data \in AllWeatherResults THEN AnalysisTable[weather_data]
    ELSE analyze_adverse_weather(weather_data)

(***************************************************************************)
(* routers/suppliers.py: check_weather_impact                              *)
(***************************************************************************)
IsDigit(c) == c \in DOMAIN DigitMap
DigitVal(c) == DigitMap[c]

RECURSIVE NatOf(_)
NatOf(ds) == IF ds = <<>> THEN 0 ELSE 10 * NatOf(SubSeq(ds, 1, Len(ds) - 1)) + DigitVal(ds[Len(ds)])

IsLeap(y) == (y % 4 = 0 /\ y % 100 # 0) \/ y % 400 = 0
DaysIn(y, m) ==
    IF m = 2 THEN (IF IsLeap(y) THEN 29 ELSE 28)
    ELSE IF m \in {4, 6, 9, 11} THEN 30 ELSE 31

\* datetime.strptime(s, "%Y-%m-%d").date(): None stands for ValueError.  %Y takes
\* exactly four digits, %m and %d one or two
strptime_date(s) ==
    LET dashes == {i \in 1..Len(s) : s[i] = "-"}
    IN  IF Cardinality(dashes) # 2 THEN None
        ELSE LET i == CHOOSE a \in dashes : \A b \in dashes : a <= b
                 j == CHOOSE a \in dashes : \A b \in dashes : a >= b
                 ys == SubSeq(s, 1, i - 1)
                 ms == SubSeq(s, i + 1, j - 1)
                 ds == SubSeq(s, j + 1, Len(s))
                 digits(p) == \A k \in 1..Len(p) : IsDigit(p[k])
             IN  IF ~(digits(ys) /\ digits(ms) /\ digits(ds)) THEN None
                 ELSE IF Len(ys) # 4 \/ Len(ms) \notin {1, 2} \/ Len(ds) \notin {1, 2} THEN None
                 ELSE LET y == NatOf(ys)
                          m == NatOf(ms)
                          d == NatOf(ds)
                      IN  IF y < 1 \/ m \notin 1..12 \/ d < 1 \/ d > DaysIn(y, m) THEN None
                          ELSE Some([year |-> y, month |-> m, day |-> d])

\* delivery_date strings of the requests
D1Text == <<"2","0","2","4","-","0","8","-","0","8">>
D2Text == <<"2","0","2","4","-","0","8","-","0","9">>
UnpaddedD1Text == <<"2","0","2","4","-","8","-","8">>
BadDateText == <<"0","8","/","0","8","/","2","0","2","4">>
NoSuchDayText == <<"2","0","2","4","-","0","2","-","3","0">>
AllDateTexts == {D1Text, D2Text, UnpaddedD1Text, BadDateText, NoSuchDayText}

\* strptime_date tabulated over the strings above
ParsedTable == [s \in AllDateTexts |-> strptime_date(s)]
ParsedDate(s) == IF s \in AllDateTexts THEN ParsedTable[s] ELSE strptime_date(s)

\* variant of Excuse that forgets the status assignment
ExcuseKeepingVerdict(row, weather_analysis) ==
    [row EXCEPT !.weather_data = Some(weather_analysis),
                !.weather_justification = Some(weather_analysis.justification)]

\* record.status = "excused-weather"; record.weather_data = ...; record.weather_justification = ...
Excuse(row, weather_analysis) ==
    [row EXCEPT !.status = "excused-weather",
                !.weather_data = Some(weather_analysis),
                !.weather_justification = Some(weather_analysis.justification)]

\* `if request.compliance_record_id:` an absent id and the id 0 are both falsy
HasRecordId(request) ==
    request.compliance_record_id # None /\ request.compliance_record_id[1] # 0

\* the query by id and supplier_id (.first(): the id is the primary key)
RecordOfSupplier(R, supplier_id, record_id) ==
    {rid \in DOMAIN R : rid = record_id /\ R[rid].supplier_id = supplier_id}

\* variant of NonCompliantOnDate without the date filter
NonCompliantOfSupplier(R, supplier_id, delivery_date) ==
    {rid \in DOMAIN R : R[rid].supplier_id = supplier_id /\ R[rid].status = "non-compliant"}

\* the query by supplier_id, date_recorded and status (.all())
NonCompliantOnDate(R, supplier_id, delivery_date) ==
    {rid \in DOMAIN R :
        /\ R[rid].supplier_id = supplier_id
        /\ R[rid].date_recorded = delivery_date
        /\ R[rid].status = "non-compliant"}

\* variant of ExcusedById that does not look at the record's verdict
ExcusedByIdWhateverTheVerdict(R, found, weather_analysis) ==
    {rid \in found : weather_analysis.has_adverse_weather}

\* `if weather_analysis["has_adverse_weather"] and record.status == "non-compliant":`
ExcusedById(R, found, weather_analysis) ==
    {rid \in found : weather_analysis.has_adverse_weather /\ R[rid].status = "non-compliant"}

\* variant of ExcusedByDate that does not look at has_adverse_weather
ExcusedByDateWhateverTheWeather(selected, weather_analysis) == selected

\* `if weather_analysis["has_adverse_weather"]: for record in records: ...`
ExcusedByDate(selected, weather_analysis) ==
    IF weather_analysis.has_adverse_weather THEN selected ELSE {}

\* check_weather_impact(request): request is [supplier_id, compliance_record_id,
\* lat, lon, delivery_date]; geo is what get_coordinates_from_country returns
\* for the supplier's country, weather_data what get_historical_weather returns.
\* updated_records is a set: the by-date query has no ORDER BY.
check_weather_impact(S, R, request, geo, weather_data) ==
    LET unchanged(response) == [suppliers |-> S, records |-> R, response |-> response]
        parsed == ParsedDate(request.delivery_date)
    IN
    IF request.supplier_id \notin DOMAIN S
    THEN unchanged(HttpError(404, "Supplier not found"))
    ELSE IF (request.lat = None \/ request.lon = None) /\ geo = None
    THEN unchanged(HttpError(400, "Could not determine coordinates"))
    ELSE IF parsed = None
    THEN unchanged(HttpError(400, "Invalid delivery_date format"))
    ELSE IF weather_data.kind # "dict"
    THEN unchanged(HttpError(503, "Unable to retrieve weather data"))
    ELSE
    LET delivery_date == parsed[1]
        weather_analysis == AnalysisOf(weather_data)
    IN
    IF weather_analysis = AnalysisRaised
    THEN unchanged(HttpError(500, "IndexError"))
    ELSE
    LET respond(updated) ==
            LET R2 == [rid \in DOMAIN R |->
                          IF rid \in updated THEN Excuse(R[rid], weather_analysis) ELSE R[rid]]
            IN  [suppliers |-> S,
                 records |-> R2,
                 response |-> [code |-> 200,
                               supplier_id |-> request.supplier_id,
                               compliance_record_id |-> request.compliance_record_id,
                               weather_analysis |-> weather_analysis,
                               justification |-> weather_analysis.justification,
                               status_updated |-> Cardinality(updated) > 0,
                               updated_records |->
                                   {[id |-> rid, row |-> R2[rid]] : rid \in updated}]]
    IN
    IF HasRecordId(request)
    THEN LET found == RecordOfSupplier(R, request.supplier_id, request.compliance_record_id[1])
         IN  IF found = {}
             THEN unchanged(HttpError(404, "Compliance record not found for supplier"))
             ELSE respond(ExcusedById(R, found, weather_analysis))
    ELSE respond(ExcusedByDate(NonCompliantOnDate(R, request.supplier_id, delivery_date),
                               weather_analysis))

(***************************************************************************)
(* Requests the handlers are driven with.                                  *)
(***************************************************************************)
Names == {"Acme", "Globex"}
Countries == {"Germany"}
SupplierIds == 1..MaxSuppliers
RecordIds == 1..MaxRecords

SupplierInputs ==
    [name : Names, country : Countries, compliance_score : {None, Some(150)}, last_audit : {None}]

UpdateInputs == {[name |-> n] : n \in Names} \cup {[compliance_score |-> 150]}

RECURSIVE SeqsUpTo(_, _)
SeqsUpTo(set, n) ==
    IF n = 0 THEN {<<>>}
    ELSE LET shorter == SeqsUpTo(set, n - 1)
         IN  shorter \cup {Append(q, x) : q \in {p \in shorter : Len(p) = n - 1}, x \in set}

Batches == SeqsUpTo(RecordInputs, MaxBatch)

OpinionWith(suggestion) ==
    [json |-> "object",
     compliance_patterns |-> <<"late deliveries">>,
     non_compliance_categories |-> <<"delivery">>,
     risk_assessment |-> Some("high"),
     key_issues |-> <<"delays">>,
     compliance_score_suggestion |-> suggestion,
     summary |-> "ok"]

AiRaises == [kind |-> "raises", message |-> "timeout"]
AiUnparsable == [kind |-> "unparsable"]
AiJson(value) == [kind |-> "json", value |-> value]

\* JSON values other than numbers, and a JSON array
Str(text) == [t |-> "string", s |-> text]
Null == [t |-> "null"]
JsonArray == [json |-> "array"]

\* outcomes of the advisory collaborator the handler is driven with
AiOutcomes ==
    {AiRaises, AiUnparsable,
     AiJson(OpinionWith(Some(Num(150)))),
     AiJson(OpinionWith(Some(Str("85"))))}

\* every kind of outcome: raising, unparsable text, an object with a numeric,
\* a textual, a null or no suggestion, and a document that is not an object
AllAiOutcomes ==
    AiOutcomes
    \cup {AiJson(OpinionWith(Some(Num(-5)))), AiJson(OpinionWith(Some(Num(85)))),
          AiJson(OpinionWith(Some(Null))), AiJson(OpinionWith(None)), AiJson(JsonArray)}

\* requests of check_weather_impact with the collaborators' answers:
\* [request, geo, weather_data]
WeatherCall(supplier_id, compliance_record_id, lat, delivery_date, geo, weather_data) ==
    [request |-> [supplier_id |-> supplier_id,
                  compliance_record_id |-> compliance_record_id,
                  lat |-> lat, lon |-> Some(-740),
                  delivery_date |-> delivery_date],
     geo |-> geo,
     weather_data |-> weather_data]

RecordIdInputs == {None} \cup {Some(r) : r \in 0..MaxRecords}
Berlin == <<525, 134>>

WeatherCalls ==
    {WeatherCall(sid, rid, Some(407), d, None, get_historical_weather(ApiAnswer(200, Rain15))) :
        sid \in SupplierIds, rid \in RecordIdInputs, d \in {D1Text, D2Text}}
    \cup {WeatherCall(1, None, None, D1Text, Some(Berlin), get_historical_weather(ApiNoKey)),
          WeatherCall(1, None, None, D1Text, None, Rain15),
          WeatherCall(1, None, Some(407), BadDateText, None, Rain15)}

(***************************************************************************)
(* The state machine: one action per handler.  last is the handler that    *)
(* made the latest write to the store; a request that is refused, or that  *)
(* writes nothing, leaves the whole state as it was.                       *)
(***************************************************************************)
Store(S, R) == <<S, R>>
OutSuppliers(out) == IF "suppliers" \in DOMAIN out THEN out.suppliers ELSE suppliers
OutRecords(out) == IF "records" \in DOMAIN out THEN out.records ELSE records
\* the handler's name if its outcome differs from the store it started from
Written(out, op) ==
    IF Store(OutSuppliers(out), OutRecords(out)) # Store(suppliers, records) THEN op ELSE last

Init ==
    /\ suppliers = <<>>
    /\ records = <<>>
    /\ next_supplier_id = 1
    /\ next_record_id = 1
    /\ last = "none"

CreateSupplier(inputs) ==
    \E supplier \in inputs :
        /\ next_supplier_id <= MaxSuppliers
        /\ LET out == create_supplier(suppliers, next_supplier_id, supplier)
           IN  /\ suppliers' = out.suppliers
               /\ next_supplier_id' = out.next_supplier_id
               /\ last' = Written(out, "create_supplier")
        /\ UNCHANGED <<records, next_record_id>>

UpdateSupplier(inputs) ==
    \E supplier_id \in SupplierIds, update_data \in inputs :
        /\ LET out == update_supplier(suppliers, supplier_id, update_data)
           IN  /\ suppliers' = out.suppliers
               /\ last' = Written(out, "update_supplier")
        /\ UNCHANGED <<records, next_supplier_id, next_record_id>>

DeleteSupplier ==
    \E supplier_id \in SupplierIds :
        /\ LET out == delete_supplier(suppliers, records, supplier_id)
           IN  /\ suppliers' = out.suppliers
               /\ records' = out.records
               /\ last' = Written(out, "delete_supplier")
        /\ UNCHANGED <<next_supplier_id, next_record_id>>

CheckCompliance(batches, ai_outcomes, storages) ==
    \E supplier_id \in SupplierIds, compliance_data \in batches,
       ai_raw \in ai_outcomes, storage \in storages :
        /\ next_record_id + Len(compliance_data) - 1 <= MaxRecords
        /\ LET out == check_compliance(suppliers, records, next_record_id,
                                       [supplier_id |-> supplier_id,
                                        compliance_data |-> compliance_data],
                                       ai_raw, storage)
           IN  /\ suppliers' = out.suppliers
               /\ records' = out.records
               /\ next_record_id' = out.next_record_id
               /\ last' = Written(out, "check_compliance")
        /\ UNCHANGED next_supplier_id

\* variant of CreateComplianceRecord that overwrites the supplier's stored record
\* of the same metric (an upsert) instead of inserting a row
CreateComplianceRecordUpserting(inputs) ==
    \E supplier_id \in SupplierIds, record \in inputs :
        /\ next_record_id <= MaxRecords
        /\ LET out == create_compliance_record(suppliers, records, next_record_id,
                                               supplier_id, record)
               same == {rid \in DOMAIN records :
                           /\ records[rid].supplier_id = supplier_id
                           /\ records[rid].metric = record.metric}
           IN  /\ records' = IF out.response.code = 200 /\ same # {}
                             THEN [rid \in DOMAIN records |->
                                      IF rid \in same THEN out.records[next_record_id]
                                      ELSE records[rid]]
                             ELSE out.records
               /\ next_record_id' = out.next_record_id
               /\ last' = Written(out, "create_compliance_record")
        /\ UNCHANGED <<suppliers, next_supplier_id>>

CreateComplianceRecord(inputs) ==
    \E supplier_id \in SupplierIds, record \in inputs :
        /\ next_record_id <= MaxRecords
        /\ LET out == create_compliance_record(suppliers, records, next_record_id,
                                               supplier_id, record)
           IN  /\ records' = out.records
               /\ next_record_id' = out.next_record_id
               /\ last' = Written(out, "create_compliance_record")
        /\ UNCHANGED <<suppliers, next_supplier_id>>

\* variant of CheckWeatherImpact that also rewrites the supplier's score
CheckWeatherImpactRescoring(calls) ==
    \E call \in calls :
        /\ LET out == check_weather_impact(suppliers, records,
                                            call.request, call.geo, call.weather_data)
           IN  /\ suppliers' = IF out.records = records THEN out.suppliers
                                ELSE [out.suppliers EXCEPT
                                         ![call.request.supplier_id].compliance_score = 0]
               /\ records' = out.records
               /\ last' = Written(out, "check_weather_impact")
        /\ UNCHANGED <<next_supplier_id, next_record_id>>

CheckWeatherImpact(calls) ==
    \E call \in calls :
        /\ LET out == check_weather_impact(suppliers, records,
                                            call.request, call.geo, call.weather_data)
           IN  /\ suppliers' = out.suppliers
               /\ records' = out.records
               /\ last' = Written(out, "check_weather_impact")
        /\ UNCHANGED <<next_supplier_id, next_record_id>>

\* the handlers that only read
GetSupplier ==
    \E supplier_id \in SupplierIds :
        /\ get_supplier(suppliers, records, supplier_id).response.code \in {200, 404}
        /\ UNCHANGED vars

GetSupplierComplianceRecords ==
    \E supplier_id \in SupplierIds, metric \in {None, Some(delivery_time)} :
        /\ get_supplier_compliance_records(suppliers, records, supplier_id, metric)
               .response.code \in {200, 404}
        /\ UNCHANGED vars

GetInsights ==
    \E supplier_id \in {None, Some(1)}, start_date \in {D2} :
        /\ get_insights(suppliers, records, supplier_id, start_date, "insights")
               .response.code \in {200, 500}
        /\ UNCHANGED vars

Next ==
    \/ GetSupplier
    \/ GetSupplierComplianceRecords
    \/ GetInsights
    \/ CreateSupplier(SupplierInputs)
    \/ UpdateSupplier(UpdateInputs)
    \/ DeleteSupplier
    \/ CheckCompliance(Batches, AiOutcomes, {StorageOk})
    \/ CheckCompliance({<<LateDelivery>>}, {AiRaises}, {CommitFails, RefreshFails})
    \/ CreateComplianceRecord(SingleRecordInputs)
    \/ CheckWeatherImpact(WeatherCalls)

Spec == Init /\ [][Next]_vars

(***************************************************************************)
(* Requests the properties below quantify over.  A property of a handler   *)
(* is stated for the handler's operator applied to every reachable store.  *)
(***************************************************************************)
AdjudicationRequests ==
    [supplier_id : SupplierIds,
     compliance_record_id : RecordIdInputs,
     lat : {Some(407)}, lon : {Some(-740)},
     delivery_date : {D1Text, D2Text, UnpaddedD1Text, BadDateText}]

\* weather documents the detector analyses without raising
AnsweredResults ==
    {w \in AllWeatherResults : w.kind = "dict" /\ AnalysisOf(w) # AnalysisRaised}
AdverseResults == {w \in AnsweredResults : AnalysisOf(w).has_adverse_weather}
BenignResults == {w \in AnsweredResults : ~AnalysisOf(w).has_adverse_weather}

Adjudicate(request, weather_data) ==
    check_weather_impact(suppliers, records, request, None, weather_data)

IngestInputs == RecordInputs \cup {PunctualDelivery}
IngestBatches == SeqsUpTo(IngestInputs, MaxBatch)

\* the verdict the classifier rules give each observation above
ExpectedStatus ==
    [r \in IngestInputs |->
        IF r = LateDelivery THEN "non-compliant"
        ELSE IF r = LowQuality THEN "non-compliant"
        ELSE IF r = PunctualDelivery THEN "compliant"
        ELSE "excused-weather"]

\* variant of Ingest that merges: an observation the supplier already has a
\* record of (same metric, date and result) is not stored again
IngestMerging(supplier_id, compliance_data, ai_raw) ==
    check_compliance(suppliers, records, next_record_id,
                     [supplier_id |-> supplier_id,
                      compliance_data |->
                          SelectSeq(compliance_data,
                                    LAMBDA record_data :
                                        ~\E rid \in DOMAIN records :
                                            /\ records[rid].supplier_id = supplier_id
                                            /\ records[rid].metric = record_data.metric
                                            /\ records[rid].date_recorded = record_data.date_recorded
                                            /\ records[rid].result = record_data.result)],
                     ai_raw, StorageOk)

Ingest(supplier_id, compliance_data, ai_raw) ==
    check_compliance(suppliers, records, next_record_id,
                     [supplier_id |-> supplier_id, compliance_data |-> compliance_data],
                     ai_raw, StorageOk)

Verdicts == {"compliant", "non-compliant", "excused-weather"}

(***************************************************************************)
(* C1: in every reachable state the verdict of every stored compliance     *)
(* record is one of compliant, non-compliant, excused-weather.             *)
(* Refuted: status is a free string that create_compliance_record stores   *)
(* as given and check_compliance stores when no rule applies ("late").     *)
(***************************************************************************)
C1_VerdictInEnum ==
    \A rid \in DOMAIN records : records[rid].status \in Verdicts

(***************************************************************************)
(* C2: no record is created with verdict excused-weather: a record holds   *)
(* excused-weather only if an adjudication reclassified it (which always   *)
(* attaches the adjudication payload).                                     *)
(* Refuted: check_compliance stores the caller's status "excused-weather"  *)
(* for an observation without expected_value.                              *)
(***************************************************************************)
C2_ExcusedOnlyByAdjudication ==
    \A rid \in DOMAIN records :
        records[rid].status = "excused-weather" =>
            /\ records[rid].weather_data # None
            /\ records[rid].weather_justification # None

(***************************************************************************)
(* C3: in every reachable state every supplier's compliance score is an    *)
(* integer in [0,100].                                                     *)
(* Refuted: create_supplier and update_supplier store the requested score  *)
(* unchecked (150).                                                        *)
(***************************************************************************)
C3_ScoreInRange ==
    \A id \in DOMAIN suppliers : suppliers[id].compliance_score \in 0..100

(***************************************************************************)
(* C4: adjudication without a record id under adverse weather changes      *)
(* exactly the records of the given supplier whose date is the parsed      *)
(* delivery_date and whose verdict is non-compliant: each gets verdict     *)
(* excused-weather, the adjudication payload and its justification; every  *)
(* other record is left as it was.                                         *)
(***************************************************************************)
C4_ByDateAdverseExcusesExactly ==
    \A request \in AdjudicationRequests, w \in AdverseResults :
        LET parsed == ParsedDate(request.delivery_date)
            analysis == AnalysisOf(w)
        IN  (/\ request.compliance_record_id = None
             /\ request.supplier_id \in DOMAIN suppliers
             /\ parsed # None)
            => \A out \in {Adjudicate(request, w)} :
               /\ out.response.code = 200
               /\ out.response.justification = analysis.justification
               /\ DOMAIN out.records = DOMAIN records
               /\ \A rid \in DOMAIN records :
                     IF /\ records[rid].supplier_id = request.supplier_id
                        /\ records[rid].date_recorded = parsed[1]
                        /\ records[rid].status = "non-compliant"
                     THEN out.records[rid] =
                              [records[rid] EXCEPT
                                  !.status = "excused-weather",
                                  !.weather_data = Some(analysis),
                                  !.weather_justification = Some(analysis.justification)]
                     ELSE out.records[rid] = records[rid]

\* a by-date adverse adjudication that excuses a record while the same supplier
\* holds a non-compliant record of another date
C4_Witness ==
    \E request \in AdjudicationRequests, w \in AdverseResults :
        LET out == Adjudicate(request, w)
        IN  /\ request.compliance_record_id = None
            /\ out.response.code = 200
            /\ out.response.status_updated
            /\ \E rid \in DOMAIN records :
                  /\ records[rid].supplier_id = request.supplier_id
                  /\ records[rid].status = "non-compliant"
                  /\ out.records[rid] = records[rid]

(***************************************************************************)
(* C5: under benign weather adjudication changes no record and no          *)
(* supplier, and a call that succeeds reports status_updated = false with  *)
(* an empty list, with or without a record id; repeating the call gives    *)
(* the same outcome on the same store.                                     *)
(***************************************************************************)
C5_BenignChangesNothing ==
    \A request \in AdjudicationRequests, w \in BenignResults :
        LET rid == request.compliance_record_id
        IN  \A out \in {Adjudicate(request, w)} :
            /\ out.suppliers = suppliers
            /\ out.records = records
            /\ check_weather_impact(out.suppliers, out.records, request, None, w) = out
            /\ out.response.code = 200 =>
                  /\ out.response.status_updated = FALSE
                  /\ out.response.updated_records = {}
            /\ (/\ request.supplier_id \in DOMAIN suppliers
                /\ ParsedDate(request.delivery_date) # None
                /\ \/ rid = None
                   \/ /\ rid[1] \in DOMAIN records
                      /\ records[rid[1]].supplier_id = request.supplier_id)
               => out.response.code = 200

\* benign adjudications that succeed on a non-compliant record, by its id and by its date
C5_Witness ==
    \E rid \in DOMAIN records, w \in BenignResults, d \in {D1Text, D2Text} :
        LET by_id == [supplier_id |-> records[rid].supplier_id,
                      compliance_record_id |-> Some(rid),
                      lat |-> Some(407), lon |-> Some(-740), delivery_date |-> d]
            by_date == [by_id EXCEPT !.compliance_record_id = None]
        IN  /\ records[rid].status = "non-compliant"
            /\ records[rid].date_recorded = ParsedDate(d)[1]
            /\ Adjudicate(by_id, w).response.code = 200
            /\ Adjudicate(by_date, w).response.code = 200

(***************************************************************************)
(* C6: adjudication with adverse weather is idempotent: a second call with *)
(* the same arguments and the same observation selects none of the records *)
(* the first call excused, leaves the store as the first call left it, and *)
(* reports status_updated = false.                                         *)
(***************************************************************************)
C6_AdverseIdempotent ==
    \A request \in AdjudicationRequests, w \in AdverseResults :
        \A first \in {Adjudicate(request, w)} :
        \A second \in {check_weather_impact(first.suppliers, first.records, request, None, w)} :
            /\ second.suppliers = first.suppliers
            /\ second.records = first.records
            /\ first.response.code = 200 =>
                  /\ second.response.code = 200
                  /\ second.response.status_updated = FALSE
                  /\ second.response.updated_records = {}

\* a first call that excuses a record, followed by a second that finds nothing
C6_Witness ==
    \E request \in AdjudicationRequests, w \in AdverseResults :
        LET first == Adjudicate(request, w)
            second == check_weather_impact(first.suppliers, first.records, request, None, w)
        IN  /\ first.response.code = 200
            /\ first.response.status_updated
            /\ second.response.code = 200
            /\ ~second.response.status_updated

(***************************************************************************)
(* C7: with an explicit record id, adjudication fails with NotFound and    *)
(* changes nothing when no record of that id belongs to the supplier;      *)
(* succeeds and changes nothing when the record's verdict is not           *)
(* non-compliant; and reclassifies the record, and no other, only when it  *)
(* belongs to the supplier, is non-compliant and the weather is adverse.   *)
(* Refuted: the id 0 is taken for no id, the call succeeds and falls       *)
(* through to the by-date selection.                                       *)
(***************************************************************************)
C7_ExplicitRecordId ==
    \A request \in AdjudicationRequests, w \in AnsweredResults :
        (/\ request.compliance_record_id # None
         /\ request.supplier_id \in DOMAIN suppliers
         /\ ParsedDate(request.delivery_date) # None)
        => LET rid == request.compliance_record_id[1]
               owned == /\ rid \in DOMAIN records
                        /\ records[rid].supplier_id = request.supplier_id
           IN  \A out \in {Adjudicate(request, w)} :
               IF ~owned
               THEN /\ out.response.code = 404
                    /\ out.records = records
                    /\ out.suppliers = suppliers
               ELSE /\ out.response.code = 200
                    /\ \A k \in DOMAIN records \ {rid} : out.records[k] = records[k]
                    /\ IF records[rid].status = "non-compliant"
                          /\ AnalysisOf(w).has_adverse_weather
                       THEN out.records[rid].status = "excused-weather"
                       ELSE out.records[rid] = records[rid]

(***************************************************************************)
(* C8: weather adjudication never changes any supplier: whatever the       *)
(* request and the weather document, refused or not, the suppliers after   *)
(* the call are the suppliers before it, and every step in which the       *)
(* adjudication writes records leaves the suppliers as they were.          *)
(***************************************************************************)
C8_AdjudicationLeavesSuppliers ==
    /\ [](\A request \in AdjudicationRequests, w \in AllWeatherResults :
             Adjudicate(request, w).suppliers = suppliers)
    /\ [][last' = "check_weather_impact" => suppliers' = suppliers]_vars

\* the adjudication has just excused a record of a supplier
C8_Witness ==
    /\ last = "check_weather_impact"
    /\ \E rid \in DOMAIN records :
          /\ records[rid].status = "excused-weather"
          /\ records[rid].weather_data # None
          /\ records[rid].supplier_id \in DOMAIN suppliers

(***************************************************************************)
(* C9: ingestion never fails because of the advisory collaborator: for an  *)
(* existing supplier and a working store it commits the staged records and *)
(* answers success whether the collaborator raises, returns unparsable     *)
(* content or returns a parsed document of any shape.                      *)
(* Refuted: a document that is not an object, or whose suggestion is not a *)
(* number, raises inside the handler, which rolls back and answers 500.    *)
(***************************************************************************)
C9_IngestSurvivesAnyOpinion ==
    \A supplier_id \in DOMAIN suppliers, compliance_data \in IngestBatches,
       ai_raw \in AllAiOutcomes :
        \A out \in {Ingest(supplier_id, compliance_data, ai_raw)} :
            /\ out.response.code = 200
            /\ DOMAIN out.records =
                  DOMAIN records
                  \cup (next_record_id..(next_record_id + Len(compliance_data) - 1))

(***************************************************************************)
(* C10: when the collaborator raises, the opinion attached and returned is *)
(* the fallback with risk_assessment "unknown" and suggestion 70, the      *)
(* records are created with the classifier's verdict and the supplier's    *)
(* score becomes 70; when it returns unparsable content the opinion is the *)
(* fallback with risk_assessment "medium" and suggestion 70; the two       *)
(* fallback documents differ.                                              *)
(***************************************************************************)
C10_FallbackOpinions ==
    \A supplier_id \in DOMAIN suppliers, compliance_data \in IngestBatches :
        \A raised \in {Ingest(supplier_id, compliance_data, AiRaises)},
           garbled \in {Ingest(supplier_id, compliance_data, AiUnparsable)} :
        LET opinion == raised.response.ai_analysis
        IN  /\ raised.response.code = 200
            /\ opinion.risk_assessment = Some("unknown")
            /\ opinion.compliance_score_suggestion = Some(Num(70))
            /\ Len(raised.response.compliance_records) = Len(compliance_data)
            /\ \A i \in 1..Len(compliance_data) :
                  LET created == raised.response.compliance_records[i]
                  IN  /\ created.id \in DOMAIN raised.records \ DOMAIN records
                      /\ raised.records[created.id] = created.row
                      /\ created.row.status = ExpectedStatus[compliance_data[i]]
                      /\ created.row.ai_analysis = Some(opinion)
            /\ raised.suppliers[supplier_id].compliance_score = 70
            /\ raised.response.updated_compliance_score = 70
            /\ garbled.response.code = 200
            /\ garbled.response.ai_analysis.risk_assessment = Some("medium")
            /\ garbled.response.ai_analysis.compliance_score_suggestion = Some(Num(70))
            /\ garbled.suppliers[supplier_id].compliance_score = 70
            /\ garbled.response.ai_analysis # opinion
            /\ garbled.response.ai_analysis.summary # opinion.summary
            /\ garbled.response.ai_analysis.non_compliance_categories
                  # opinion.non_compliance_categories

\* records stored with each of the two fallbacks, the raising one's supplier at 70
C10_Witness ==
    /\ last = "check_compliance"
    /\ \E r1, r2 \in DOMAIN records :
          /\ records[r1].ai_analysis = Some(ApiFallback("timeout"))
          /\ records[r1].status = "non-compliant"
          /\ suppliers[records[r1].supplier_id].compliance_score = 70
          /\ records[r2].ai_analysis = Some(ParseFallback)

(***************************************************************************)
(* C11: ingestion is all-or-nothing: either the call succeeds, every       *)
(* staged record is stored and the score is updated, or, on any failure    *)
(* inside the operation, an error is returned, no record of the batch is   *)
(* stored and the score is unchanged.                                      *)
(* Refuted: the handler refreshes the rows inside the try block after the  *)
(* commit; a failure there answers 500 although the batch is stored.       *)
(***************************************************************************)
C11_AllOrNothing ==
    \A supplier_id \in DOMAIN suppliers, compliance_data \in Batches,
       ai_raw \in AllAiOutcomes, storage \in StorageOutcomes :
        \A out \in {check_compliance(suppliers, records, next_record_id,
                                     [supplier_id |-> supplier_id,
                                      compliance_data |-> compliance_data],
                                     ai_raw, storage)} :
            LET batch_ids == next_record_id..(next_record_id + Len(compliance_data) - 1)
            IN  IF out.response.code = 200
                THEN /\ DOMAIN out.records = DOMAIN records \cup batch_ids
                     /\ \A rid \in DOMAIN records : out.records[rid] = records[rid]
                     /\ out.suppliers[supplier_id].compliance_score
                            = out.response.updated_compliance_score
                ELSE /\ out.response.code >= 400
                     /\ out.records = records
                     /\ out.suppliers = suppliers

(***************************************************************************)
(* C12: after a successful ingest the supplier's score is the opinion's    *)
(* compliance_score_suggestion clamped into [0,100] (150 gives 100, -20    *)
(* gives 0, a value inside the range is kept); without a suggestion it is  *)
(* the supplier's previous score clamped into [0,100].                     *)
(***************************************************************************)
Suggestions == {150, -20, 85, 0, 100, 101, -1}

C12_ScoreIsClampedSuggestion ==
    \A supplier_id \in DOMAIN suppliers, compliance_data \in {<<>>, <<LateDelivery>>} :
        /\ \A suggestion \in Suggestions :
              \A out \in {Ingest(supplier_id, compliance_data,
                                 AiJson(OpinionWith(Some(Num(suggestion)))))} :
                  LET expected == IF suggestion > 100 THEN 100
                                  ELSE IF suggestion < 0 THEN 0 ELSE suggestion
                  IN  /\ out.response.code = 200
                      /\ out.suppliers[supplier_id].compliance_score = expected
                      /\ out.response.updated_compliance_score = expected
        /\ \A out \in {Ingest(supplier_id, compliance_data, AiJson(OpinionWith(None)))} :
              LET previous == suppliers[supplier_id].compliance_score
                  expected == IF previous > 100 THEN 100
                              ELSE IF previous < 0 THEN 0 ELSE previous
              IN  /\ out.response.code = 200
                  /\ out.suppliers[supplier_id].compliance_score = expected
        /\ \A other \in DOMAIN suppliers \ {supplier_id} :
              Ingest(supplier_id, compliance_data,
                     AiJson(OpinionWith(Some(Num(150))))).suppliers[other] = suppliers[other]

\* an ingest whose opinion suggested 150 has just left its supplier at 100, and a
\* supplier stored with 150 would get 100 from an opinion without a suggestion
C12_Witness ==
    /\ last = "check_compliance"
    /\ \E rid \in DOMAIN records :
          /\ records[rid].ai_analysis = Some(OpinionWith(Some(Num(150))))
          /\ suppliers[records[rid].supplier_id].compliance_score = 100
    /\ \E id \in DOMAIN suppliers :
          /\ suppliers[id].compliance_score = 150
          /\ Ingest(id, <<>>, AiJson(OpinionWith(None))).suppliers[id].compliance_score = 100

(***************************************************************************)
(* The classifier driven on its own: one supplier, and ingests of single   *)
(* observations over metric spellings, results around the expected value,  *)
(* an absent expected value and several caller-supplied statuses.          *)
(***************************************************************************)
MixedDeliveryTime == <<"D","e","l","i","v","e","r","y","_","T","i","m","e">>
UpperQualityRating == <<"Q","U","A","L","I","T","Y","_","R","A","T","I","N","G">>
DefectRate == <<"d","e","f","e","c","t","_","r","a","t","e">>
SpacedDeliveryTime == <<"d","e","l","i","v","e","r","y"," ","t","i","m","e">>

TimeMetricSpellings == {delivery_time, MixedDeliveryTime, lead_time}
QualityMetricSpellings == {quality_score, UpperQualityRating}
OtherMetricSpellings == {DefectRate, SpacedDeliveryTime}

CallerStatuses == {"compliant", "non-compliant", "late"}

ClassifierInputs ==
    [metric : TimeMetricSpellings \cup QualityMetricSpellings \cup OtherMetricSpellings,
     date_recorded : {D1},
     result : {50},
     expected_value : {None, Some(49), Some(50), Some(51)},
     status : CallerStatuses]

ClassifierBatches == {<<o>> : o \in ClassifierInputs}

ClassifierSupplier ==
    [name |-> "Acme", country |-> "Germany", compliance_score |-> None, last_audit |-> None]

ClassifierNext ==
    \/ CreateSupplier({ClassifierSupplier})
    \/ CheckCompliance(ClassifierBatches, {AiRaises}, {StorageOk})

ClassifierSpec == Init /\ [][ClassifierNext]_vars

\* the verdict check_compliance answers for one observation
Classified(supplier_id, observation) ==
    Ingest(supplier_id, <<observation>>, AiRaises).response.compliance_records[1].row.status

(***************************************************************************)
(* C13: every record ingested with an expected value, whatever status the  *)
(* caller supplied, is compliant iff result <= expected_value when its     *)
(* metric is delivery_time or lead_time in any letter case, compliant iff  *)
(* result >= expected_value when it is quality_score or quality_rating,    *)
(* and non-compliant otherwise; equality is compliant in both.             *)
(***************************************************************************)
C13_PolicyVerdicts ==
    /\ \A rid \in DOMAIN records :
          LET r == records[rid]
          IN  r.expected_value # None =>
                 /\ r.metric \in TimeMetricSpellings =>
                       r.status = IF r.result <= r.expected_value[1]
                                  THEN "compliant" ELSE "non-compliant"
                 /\ r.metric \in QualityMetricSpellings =>
                       r.status = IF r.result >= r.expected_value[1]
                                  THEN "compliant" ELSE "non-compliant"
    /\ \A supplier_id \in DOMAIN suppliers, o \in ClassifierInputs :
          o.expected_value # None =>
             /\ o.metric \in TimeMetricSpellings =>
                   Classified(supplier_id, o) = IF o.result <= o.expected_value[1]
                                                THEN "compliant" ELSE "non-compliant"
             /\ o.metric \in QualityMetricSpellings =>
                   Classified(supplier_id, o) = IF o.result >= o.expected_value[1]
                                                THEN "compliant" ELSE "non-compliant"

\* stored: a mixed-case delivery time equal to its expected value, compliant, and
\* an upper-case quality rating below its expected value, non-compliant
C13_Witness ==
    \E r1, r2 \in DOMAIN records :
        /\ records[r1].metric = MixedDeliveryTime
        /\ records[r1].expected_value = Some(50)
        /\ records[r1].status = "compliant"
        /\ records[r2].metric = UpperQualityRating
        /\ records[r2].expected_value = Some(51)
        /\ records[r2].status = "non-compliant"

(***************************************************************************)
(* C14: the classifier returns the caller-supplied status verbatim, and    *)
(* the ingest succeeds, in exactly two cases: the expected value is        *)
(* absent, or it is present and the metric is none of delivery_time,       *)
(* lead_time, quality_score, quality_rating; in every other case the       *)
(* verdict does not depend on the caller's status.                         *)
(***************************************************************************)
C14_FallbackStatusVerbatim ==
    \A supplier_id \in DOMAIN suppliers, o \in ClassifierInputs :
        IF o.expected_value = None \/ o.metric \in OtherMetricSpellings
        THEN /\ Ingest(supplier_id, <<o>>, AiRaises).response.code = 200
             /\ Classified(supplier_id, o) = o.status
        ELSE \A status \in CallerStatuses :
                Classified(supplier_id, [o EXCEPT !.status = status])
                    = Classified(supplier_id, o)

\* stored with the caller's status "late": a delivery time without expected value
\* and a defect rate above its expected value
C14_Witness ==
    \E r1, r2 \in DOMAIN records :
        /\ records[r1].metric = delivery_time
        /\ records[r1].expected_value = None
        /\ records[r1].status = "late"
        /\ records[r2].metric = DefectRate
        /\ records[r2].expected_value = Some(49)
        /\ records[r2].status = "late"

(***************************************************************************)
(* C15: when the weather collaborator has no credential, answers with a    *)
(* non-success status or raises, the adjudication of a valid request still *)
(* completes without error, its analysis is flagged synthetic              *)
(* (mock_data = true) with has_adverse_weather = false and severity none,  *)
(* and no record is changed.                                               *)
(***************************************************************************)
ApiFailures == {ApiNoKey, ApiRaises, ApiAnswer(500, Rain15), ApiAnswer(401, NullResult)}

IsIsoDateText(text) ==
    /\ Len(text) = 10
    /\ \A i \in 1..10 : IF i \in {5, 8} THEN text[i] = "-" ELSE text[i] \in DOMAIN DigitMap

C16_CoordinateAndDateErrors ==
    \A supplier_id \in DOMAIN suppliers, lat \in {None, Some(407)},
       geo \in {None, Some(Berlin)}, delivery_date \in AllDateTexts,
       w \in AllWeatherResults :
        \A out \in {check_weather_impact(
                        suppliers, records,
                        [supplier_id |-> supplier_id, compliance_record_id |-> None,
                         lat |-> lat, lon |-> Some(-740), delivery_date |-> delivery_date],
                        geo, w)} :
            /\ (lat = None /\ geo = None) =>
                  /\ out.response.code = 400
                  /\ out.records = records
            /\ ~IsIsoDateText(delivery_date) =>
                  /\ out.response.code = 400
                  /\ out.records = records
            /\ (lat = None /\ geo # None /\ ParsedDate(delivery_date) # None) =>
                  out.response.code # 400

(***************************************************************************)
(* C17: the detector never fails: for a missing weather result, a result   *)
(* without an observation array and a result whose observation array is    *)
(* empty it returns has_adverse_weather = false, no findings, severity     *)
(* none and the justification "No weather data available".                 *)
(* Refuted: on an empty array weather_data['data'][0] raises IndexError,   *)
(* and the adjudication answers 500.                                       *)
(***************************************************************************)
NoWeatherAnalysis ==
    [has_adverse_weather |-> FALSE, conditions |-> <<>>, severity |-> "none",
     justification |-> <<"No weather data available">>]

C17_DetectorNeverFails ==
    /\ \A w \in {NullResult, EmptyDictResult, NoDataResult, EmptyDataResult} :
          analyze_adverse_weather(w) = NoWeatherAnalysis
    /\ \A supplier_id \in DOMAIN suppliers, w \in {NoDataResult, EmptyDataResult} :
          \A out \in {Adjudicate([supplier_id |-> supplier_id, compliance_record_id |-> None,
                                  lat |-> Some(407), lon |-> Some(-740),
                                  delivery_date |-> D1Text], w)} :
              /\ out.response.code = 200
              /\ out.response.weather_analysis = NoWeatherAnalysis

(***************************************************************************)
(* C18: end to end: ingesting for a supplier one delivery_time observation *)
(* with expected value 5 and result 6 stores a non-compliant record; a     *)
(* later adjudication for that supplier and that record's date whose       *)
(* observation has rain.1h = 15 changes the record to excused-weather with *)
(* a non-empty justification containing "Heavy rainfall", and reports it   *)
(* among the updated records.                                              *)
(***************************************************************************)
C18_EndToEnd ==
    \A supplier_id \in DOMAIN suppliers :
        /\ \A ai_raw \in {AiRaises, AiJson(OpinionWith(Some(Num(85))))} :
              \A out \in {Ingest(supplier_id, <<LateDelivery>>, ai_raw)} :
                  /\ out.response.code = 200
                  /\ out.records[next_record_id].metric = delivery_time
                  /\ out.records[next_record_id].result = 60
                  /\ out.records[next_record_id].expected_value = Some(50)
                  /\ out.records[next_record_id].status = "non-compliant"
        /\ \A rid \in DOMAIN records :
              (/\ records[rid].supplier_id = supplier_id
               /\ records[rid].metric = delivery_time
               /\ records[rid].result = 60
               /\ records[rid].expected_value = Some(50)
               /\ records[rid].date_recorded = D1
               /\ records[rid].status = "non-compliant")
              => \A out \in {Adjudicate([supplier_id |-> supplier_id,
                                         compliance_record_id |-> None,
                                         lat |-> Some(407), lon |-> Some(-740),
                                         delivery_date |-> D1Text],
                                        get_historical_weather(ApiAnswer(200, Rain15)))} :
                    /\ out.response.code = 200
                    /\ out.records[rid].status = "excused-weather"
                    /\ out.records[rid].weather_justification # None
                    /\ out.records[rid].weather_justification[1] # <<>>
                    /\ Contains(out.records[rid].weather_justification[1],
                                <<"Heavy rainfall: ">>)
                    /\ out.response.status_updated
                    /\ [id |-> rid, row |-> out.records[rid]] \in out.response.updated_records

\* the ingested delivery_time record has been excused for heavy rainfall of 15.0 mm
C18_Witness ==
    /\ last = "check_weather_impact"
    /\ \E rid \in DOMAIN records :
          /\ records[rid].metric = delivery_time
          /\ records[rid].result = 60
          /\ records[rid].expected_value = Some(50)
          /\ records[rid].ai_analysis # None
          /\ records[rid].status = "excused-weather"
          /\ records[rid].weather_justification # None
          /\ Contains(records[rid].weather_justification[1],
                      <<"Heavy rainfall: ", "1", "5", ".", "0", "mm">>)

(***************************************************************************)
(* C19: delete_supplier on a supplier that has compliance records succeeds *)
(* and removes the supplier together with all of its records, leaving the  *)
(* other records; every stored record references an existing supplier.     *)
(* Refuted: the relationship has no delete cascade and supplier_id is NOT  *)
(* NULL, so the commit of the delete fails and nothing is removed.         *)
(***************************************************************************)
C19_DeleteCascades ==
    /\ \A rid \in DOMAIN records : records[rid].supplier_id \in DOMAIN suppliers
    /\ \A supplier_id \in DOMAIN suppliers :
          \A out \in {delete_supplier(suppliers, records, supplier_id)} :
              /\ out.response.code = 200
              /\ DOMAIN out.suppliers = DOMAIN suppliers \ {supplier_id}
              /\ DOMAIN out.records =
                    {rid \in DOMAIN records : records[rid].supplier_id # supplier_id}
              /\ \A rid \in DOMAIN out.records : out.records[rid] = records[rid]

(***************************************************************************)
(* C20: every operation that takes a supplier id (get, update and delete   *)
(* supplier, ingest, list records, create single record, weather           *)
(* adjudication, insights for one supplier) reports NotFound when no       *)
(* supplier has that id, and changes nothing in the store.                 *)
(* Refuted: get_insights raises its 404 inside try/except Exception and    *)
(* answers 500.                                                            *)
(***************************************************************************)
C20_UnknownSupplierIsNotFound ==
    \A supplier_id \in (1..(MaxSuppliers + 1)) \ DOMAIN suppliers :
        /\ get_supplier(suppliers, records, supplier_id).response.code = 404
        /\ \A update_data \in UpdateInputs :
              \A out \in {update_supplier(suppliers, supplier_id, update_data)} :
                  out.response.code = 404 /\ out.suppliers = suppliers
        /\ \A out \in {delete_supplier(suppliers, records, supplier_id)} :
              out.response.code = 404 /\ out.suppliers = suppliers /\ out.records = records
        /\ \A ai_raw \in AllAiOutcomes :
              \A out \in {Ingest(supplier_id, <<LateDelivery>>, ai_raw)} :
                  out.response.code = 404 /\ out.suppliers = suppliers /\ out.records = records
        /\ get_supplier_compliance_records(suppliers, records, supplier_id, None)
              .response.code = 404
        /\ \A out \in {create_compliance_record(suppliers, records, next_record_id,
                                                supplier_id, OnTimeLate)} :
              out.response.code = 404 /\ out.records = records
        /\ \A request \in AdjudicationRequests, w \in AllWeatherResults :
              request.supplier_id = supplier_id =>
                 \A out \in {Adjudicate(request, w)} :
                     out.response.code = 404 /\ out.suppliers = suppliers
                        /\ out.records = records
        /\ get_insights(suppliers, records, Some(supplier_id), D1, "insights")
              .response.code = 404

(***************************************************************************)
(* C21: stored records are modified only by weather adjudication: a step   *)
(* of any other handler (ingest, single-record creation, supplier create,  *)
(* update and delete, the reads) leaves every field of every record that   *)
(* was stored before the step as it was.                                   *)
(***************************************************************************)
C21_OnlyAdjudicationModifiesRecords ==
    [][(\E rid \in DOMAIN records \cap DOMAIN records' : records'[rid] # records[rid])
          => /\ last' = "check_weather_impact"
             /\ \E call \in WeatherCalls :
                   records' = check_weather_impact(suppliers, records, call.request,
                                                   call.geo, call.weather_data).records]_vars

\* an ingest has run on a store that held an adjudicated record, and a
\* single-record creation on a store that held an ingested one
C21_Witness ==
    /\ last \in {"check_compliance", "create_compliance_record"}
    /\ Cardinality(DOMAIN records) = 2
    /\ \E rid \in DOMAIN records :
          /\ records[rid].status = "excused-weather"
          /\ records[rid].weather_data # None
          /\ records[rid].weather_justification # None

(***************************************************************************)
(* Supplier names: the supplier handlers alone, driven with three names so *)
(* that a rename can succeed while two suppliers exist.                    *)
(***************************************************************************)
RenameNames == Names \cup {"Initech"}

RenameSupplierInputs ==
    [name : RenameNames, country : Countries, compliance_score : {None, Some(150)},
     last_audit : {None}]

RenameUpdateInputs ==
    {[name |-> n] : n \in RenameNames}
        \cup {[compliance_score |-> 50]}
        \cup {[name |-> n, compliance_score |-> 0] : n \in RenameNames}

SupplierNext ==
    \/ CreateSupplier(RenameSupplierInputs)
    \/ UpdateSupplier(RenameUpdateInputs)
    \/ DeleteSupplier

SupplierSpec == Init /\ [][SupplierNext]_vars

(***************************************************************************)
(* C22: in every reachable state no two suppliers have the same name;      *)
(* create_supplier with a name in use is rejected and leaves the store     *)
(* unchanged; update_supplier never leaves a supplier with a name held by  *)
(* another supplier (the colliding update is refused and changes nothing). *)
(***************************************************************************)
C22_UniqueNames ==
    /\ \A a, b \in DOMAIN suppliers : suppliers[a].name = suppliers[b].name => a = b
    /\ \A supplier \in RenameSupplierInputs :
          (\E id \in DOMAIN suppliers : suppliers[id].name = supplier.name)
          => \A out \in {create_supplier(suppliers, next_supplier_id, supplier)} :
                /\ out.response.code = 400
                /\ out.suppliers = suppliers
                /\ out.next_supplier_id = next_supplier_id
    /\ \A supplier_id \in DOMAIN suppliers, update_data \in RenameUpdateInputs :
          \A out \in {update_supplier(suppliers, supplier_id, update_data)} :
              /\ \A a, b \in DOMAIN out.suppliers :
                    out.suppliers[a].name = out.suppliers[b].name => a = b
              /\ ("name" \in DOMAIN update_data
                     /\ \E id \in DOMAIN suppliers \ {supplier_id} :
                           suppliers[id].name = update_data.name)
                 => out.response.code >= 400 /\ out.suppliers = suppliers

\* two suppliers exist, one of them renamed by update_supplier, and both a
\* create and a rename that collide with a name in use are possible requests
C22_Witness ==
    /\ last = "update_supplier"
    /\ Cardinality(DOMAIN suppliers) = 2
    /\ \E id \in DOMAIN suppliers :
          suppliers[id].name = "Initech" /\ suppliers[id].compliance_score = 0
    /\ \E supplier \in RenameSupplierInputs :
          create_supplier(suppliers, next_supplier_id, supplier).response.code = 400
    /\ \E supplier_id \in DOMAIN suppliers, update_data \in RenameUpdateInputs :
          update_supplier(suppliers, supplier_id, update_data).response.code = 500

(***************************************************************************)
(* The detector and the justification generator on a family of weather     *)
(* samples.  A sample is the API's answer with one observation; rain and   *)
(* snow are absent or a dictionary with the 1h and 3h amounts, each of     *)
(* which may be absent.  DetectSpec applies the detector through           *)
(* check_weather_impact, which stores the analysis in the excused record.  *)
(***************************************************************************)
Sample(main, description, rain, snow, wind_speed) ==
    [kind |-> "dict",
     data |-> Some(<< [main |-> main, description |-> description,
                       temp |-> 180, wind_speed |-> wind_speed,
                       rain |-> rain, snow |-> snow] >>),
     mock |-> FALSE]

Amounts(h1, h3) == Some([h1 |-> h1, h3 |-> h3])

\* weather_data['data'][0] of a sample
SampleInfo(w) == w.data[1][1]

\* mains x descriptions x rain x snow x wind speed
DetectSamples ==
    LET descriptions ==
            { <<"h","e","a","v","y"," ","i","n","t","e","n","s","i","t","y"," ","r","a","i","n">>,
              <<"H","e","a","v","y"," ","S","n","o","w">>,
              <<"l","i","g","h","t"," ","r","a","i","n">>,
              <<"m","i","s","t">>,
              <<"s","e","v","e","r","e"," ","g","a","l","e">> }
        mains ==
            { <<"R","a","i","n">>, <<"T","h","u","n","d","e","r","s","t","o","r","m">>,
              <<"S","n","o","w">>, <<"C","l","e","a","r">> }
        rains ==
            { None, Amounts(Some(120), None), Amounts(Some(100), None),
              Amounts(None, Some(120)), Amounts(Some(0), Some(120)),
              Amounts(Some(20), Some(300)) }
        snows ==
            { None, Amounts(Some(0), None), Amounts(Some(5), None), Amounts(None, Some(5)),
              Amounts(Some(0), Some(5)) }
        winds == {60, 150, 151}
    IN  {Sample(m, d, r, sn, ws) :
            m \in mains, d \in descriptions, r \in rains, sn \in snows, ws \in winds}

\* analyze_adverse_weather tabulated over the samples
DetectTable == [w \in DetectSamples |-> analyze_adverse_weather(w)]

\* the samples the handler is driven with
DetectCallSamples ==
    {w \in DetectSamples :
        /\ SampleInfo(w).main \in {<<"R","a","i","n">>, <<"S","n","o","w">>}
        /\ SampleInfo(w).rain \in {None, Amounts(Some(120), None)}
        /\ SampleInfo(w).snow = None
        /\ SampleInfo(w).wind_speed = 60}

DetectCalls ==
    {WeatherCall(1, None, Some(407), D1Text, None, w) : w \in DetectCallSamples}

DetectNext ==
    \/ CreateSupplier({ClassifierSupplier})
    \/ CheckCompliance({<<LateDelivery>>}, {AiRaises}, {StorageOk})
    \/ CheckWeatherImpact(DetectCalls)

DetectSpec == Init /\ [][DetectNext]_vars

\* the (category, keyword) pairs of the table whose keyword is in the lower-cased
\* description or the lower-cased main category
KeywordHits(w) ==
    {p \in {<<ci, ki>> : ci \in 1..Len(adverse_conditions), ki \in 1..3} :
        /\ p[2] <= Len(adverse_conditions[p[1]].keywords)
        /\ \/ Contains(str_lower(SampleInfo(w).description),
                       adverse_conditions[p[1]].keywords[p[2]])
           \/ Contains(str_lower(SampleInfo(w).main),
                       adverse_conditions[p[1]].keywords[p[2]])}

\* the amount of a rain / snow entry: the 1h value, the 3h value when the 1h
\* value is absent, nothing (0) when the entry or both values are absent
AmountPreferring1h(d) ==
    IF d = None THEN 0
    ELSE IF d[1].h1 # None THEN d[1].h1[1]
    ELSE IF d[1].h3 # None THEN d[1].h3[1]
    ELSE 0

\* the findings of an analysis that carry a measurement, by category
ThresholdFindings(analysis, type) ==
    {i \in 1..Len(analysis.conditions) :
        /\ HasMeasurement(analysis.conditions[i])
        /\ analysis.conditions[i].type = type}

\* the findings of an analysis that come from the keyword table, by category
KeywordFindings(analysis, type) ==
    {i \in 1..Len(analysis.conditions) :
        /\ ~HasMeasurement(analysis.conditions[i])
        /\ analysis.conditions[i].type = type}

\* one threshold finding of the category carrying the amount iff over, else none
ThresholdAsClaimed(analysis, type, amount, over) ==
    /\ Cardinality(ThresholdFindings(analysis, type)) = (IF over THEN 1 ELSE 0)
    /\ \A i \in ThresholdFindings(analysis, type) :
          analysis.conditions[i].measurement = amount

(***************************************************************************)
(* C23: for every observation the findings of analyze_adverse_weather are  *)
(* one entry per (category, keyword) pair of the keyword table whose       *)
(* keyword is in the lower-cased description or main category, plus one    *)
(* heavy_rain finding iff the rain amount is over 10, one snow finding iff *)
(* the snow amount is over 0, one strong_wind finding iff wind speed is    *)
(* over 15, each carrying its measurement; the rain / snow amount is the   *)
(* 1h value, and the 3h value only when the 1h value is absent.            *)
(* "heavy intensity rain" with rain.1h = 12 gives at least two findings.   *)
(* Refuted: `rain.get('1h', 0) or rain.get('3h', 0)` takes the 3h value    *)
(* also when the 1h value is present and 0.                                *)
(***************************************************************************)
C23_FindingsAsClaimed ==
    /\ Len(AnalysisOf(HeavyRain12).conditions) >= 2
    /\ \A supplier_id \in DOMAIN suppliers, w \in DetectSamples :
          \A analysis \in {Adjudicate([supplier_id |-> supplier_id,
                                        compliance_record_id |-> None,
                                        lat |-> Some(407), lon |-> Some(-740),
                                        delivery_date |-> D1Text], w)
                               .response.weather_analysis} :
              /\ analysis = DetectTable[w]
              /\ Len(analysis.conditions) =
                    Cardinality(KeywordHits(w))
                    + Cardinality(UNION {ThresholdFindings(analysis, t) :
                         t \in {<<"h","e","a","v","y","_","r","a","i","n">>,
                                <<"s","n","o","w">>,
                                <<"s","t","r","o","n","g","_","w","i","n","d">>}})
              /\ \A ci \in 1..Len(adverse_conditions) :
                    Cardinality(KeywordFindings(analysis, adverse_conditions[ci].type))
                       = Cardinality({p \in KeywordHits(w) : p[1] = ci})
              /\ ThresholdAsClaimed(analysis, <<"h","e","a","v","y","_","r","a","i","n">>,
                                    AmountPreferring1h(SampleInfo(w).rain),
                                    AmountPreferring1h(SampleInfo(w).rain) > 100)
              /\ ThresholdAsClaimed(analysis, <<"s","n","o","w">>,
                                    AmountPreferring1h(SampleInfo(w).snow),
                                    AmountPreferring1h(SampleInfo(w).snow) > 0)
              /\ ThresholdAsClaimed(analysis, <<"s","t","r","o","n","g","_","w","i","n","d">>,
                                    SampleInfo(w).wind_speed,
                                    SampleInfo(w).wind_speed > 150)

\* the words that make a description severe
HighWords ==
    { <<"e","x","t","r","e","m","e">>, <<"h","e","a","v","y">>, <<"s","e","v","e","r","e">>,
      <<"t","h","u","n","d","e","r","s","t","o","r","m">>, <<"s","n","o","w">>,
      <<"b","l","i","z","z","a","r","d">> }

\* has_adverse_weather and severity agree with the findings and the lower-cased description
SeverityAsClaimed(analysis, lowered_description) ==
    /\ analysis.has_adverse_weather <=> (analysis.conditions # <<>>)
    /\ (analysis.severity = "none") <=> (analysis.conditions = <<>>)
    /\ analysis.conditions # <<>> =>
          /\ (analysis.severity = "high")
                <=> (\E word \in HighWords : Contains(lowered_description, word))
          /\ analysis.severity # "high" =>
                /\ (analysis.severity = "medium") <=> (Len(analysis.conditions) > 1)
                /\ (analysis.severity # "medium") => analysis.severity = "low"

\* every sample's analysis has the severity the rule gives
SamplesSeverityAsClaimed ==
    \A w \in DetectSamples :
        SeverityAsClaimed(DetectTable[w], str_lower(SampleInfo(w).description))

(***************************************************************************)
(* C24: has_adverse_weather is true iff there are findings; severity is    *)
(* none iff there are none, otherwise high iff the lower-cased description *)
(* contains extreme, heavy, severe, thunderstorm, snow or blizzard,        *)
(* otherwise medium iff there is more than one finding, otherwise low; the *)
(* words are looked for in the description, not in the main category.      *)
(* Stated of the analysis of every sample, of the analysis stored in every *)
(* excused record and of the no-data analysis.                             *)
(***************************************************************************)
C24_SeverityRule ==
    /\ SamplesSeverityAsClaimed
    /\ SeverityAsClaimed(AnalysisOf(NoDataResult), <<>>)
    /\ \A rid \in DOMAIN records :
          records[rid].weather_data # None =>
             /\ records[rid].weather_data[1] \in {DetectTable[w] : w \in DetectCallSamples}
             /\ SeverityAsClaimed(records[rid].weather_data[1],
                                  records[rid].weather_data[1].weather_description)

\* one record was excused with a high-severity analysis of two findings, the
\* other with a low one whose only finding is a snow hit in the main category
C24_Witness ==
    /\ \E rid \in DOMAIN records :
          /\ records[rid].weather_data # None
          /\ records[rid].weather_data[1].severity = "high"
          /\ Len(records[rid].weather_data[1].conditions) = 2
    /\ \E rid \in DOMAIN records :
          /\ records[rid].weather_data # None
          /\ records[rid].weather_data[1].severity = "low"
          /\ Len(records[rid].weather_data[1].conditions) = 1
          /\ records[rid].weather_data[1].conditions[1].type = <<"s","n","o","w">>
          /\ records[rid].weather_data[1].conditions[1].main = <<"s","n","o","w">>
          /\ ~Contains(records[rid].weather_data[1].weather_description, <<"s","n","o","w">>)

\* the category names with underscores replaced by spaces and title-cased
TitledCategory(type) ==
    IF type = <<"t","h","u","n","d","e","r","s","t","o","r","m">>
    THEN <<"T","h","u","n","d","e","r","s","t","o","r","m">>
    ELSE IF type = <<"h","e","a","v","y","_","r","a","i","n">>
    THEN <<"H","e","a","v","y"," ","R","a","i","n">>
    ELSE IF type = <<"s","n","o","w">> THEN <<"S","n","o","w">>
    ELSE IF type = <<"f","o","g">> THEN <<"F","o","g">>
    ELSE IF type = <<"e","x","t","r","e","m","e","_","w","e","a","t","h","e","r">>
    THEN <<"E","x","t","r","e","m","e"," ","W","e","a","t","h","e","r">>
    ELSE <<"?">>

\* what one finding contributes to the justification
Contribution(finding) ==
    IF "measurement" \in DOMAIN finding THEN finding.description
    ELSE TitledCategory(finding.type)

\* two or more contributions: all but the last joined by ", ", the last after " and "
RECURSIVE AndJoined(_)
AndJoined(findings) ==
    IF Len(findings) = 2
    THEN Contribution(findings[1]) \o <<" and ">> \o Contribution(findings[2])
    ELSE Contribution(findings[1]) \o <<", ">> \o AndJoined(Tail(findings))

\* the justification text of a findings sequence and a description
JustificationAsClaimed(findings, description) ==
    IF Len(findings) = 0
    THEN <<"No adverse weather conditions detected that would impact delivery.">>
    ELSE IF Len(findings) = 1
    THEN <<"Delivery delay justified due to adverse weather: ">>
         \o Contribution(findings[1])
         \o <<". Weather conditions: ">> \o description \o <<".">>
    ELSE <<"Delivery delay justified due to multiple adverse weather conditions: ">>
         \o AndJoined(findings)
         \o <<". Weather conditions: ">> \o description \o <<".">>

\* every sample's justification is the text of its findings and description
SamplesJustificationAsClaimed ==
    \A w \in DetectSamples :
        DetectTable[w].justification =
            JustificationAsClaimed(DetectTable[w].conditions,
                                   DetectTable[w].weather_description)

(***************************************************************************)
(* C25: the justification is a function of the findings sequence and the   *)
(* description: the fixed text for no findings, the singular form for one, *)
(* the "multiple adverse weather conditions" form for two or more with all *)
(* but the last joined by ", " and the last after " and "; a finding with  *)
(* a measurement contributes its description, one without contributes its  *)
(* category name with underscores as spaces, title-cased.  The             *)
(* justification stored on an excused record is this text.                 *)
(***************************************************************************)
C25_JustificationText ==
    /\ SamplesJustificationAsClaimed
    /\ \A rid \in DOMAIN records :
          records[rid].weather_data # None =>
             /\ records[rid].status = "excused-weather"
             /\ records[rid].weather_justification =
                   Some(JustificationAsClaimed(
                            records[rid].weather_data[1].conditions,
                            records[rid].weather_data[1].weather_description))

\* one record was excused with three findings (", " and " and " in the text, a
\* titled category and a measurement), another with a single finding
C25_Witness ==
    /\ \E rid \in DOMAIN records :
          /\ records[rid].weather_data # None
          /\ Len(records[rid].weather_data[1].conditions) = 3
          /\ Contains(records[rid].weather_justification[1], <<"S","n","o","w",", ">>)
          /\ Contains(records[rid].weather_justification[1],
                      <<" and ", "Heavy rainfall: ", "1", "2", ".", "0", "mm">>)
    /\ \E rid \in DOMAIN records :
          /\ records[rid].weather_data # None
          /\ Len(records[rid].weather_data[1].conditions) = 1
          /\ records[rid].weather_justification[1][1] =
                "Delivery delay justified due to adverse weather: "

\* the number of records a table holds for a supplier
RecordCount(R, supplier_id) == Cardinality({rid \in DOMAIN R : R[rid].supplier_id = supplier_id})

(***************************************************************************)
(* C26: ingestion is append-only and does not deduplicate: a successful    *)
(* ingest of a batch of n observations for a supplier raises the number of *)
(* that supplier's stored records by exactly n and leaves the records of   *)
(* the other suppliers alone; the same batch ingested a second time raises *)
(* it by n again (2n in all).                                              *)
(***************************************************************************)
C26_IngestAppends ==
    \A supplier_id \in DOMAIN suppliers,
       compliance_data \in SeqsUpTo({LateDelivery, DefectsExcused}, MaxBatch),
       ai_raw \in {AiRaises, AiJson(OpinionWith(Some(Num(85))))} :
        \A first \in {Ingest(supplier_id, compliance_data, ai_raw)} :
            /\ first.response.code = 200
            /\ RecordCount(first.records, supplier_id)
                  = RecordCount(records, supplier_id) + Len(compliance_data)
            /\ \A other \in DOMAIN suppliers \ {supplier_id} :
                  RecordCount(first.records, other) = RecordCount(records, other)
            /\ \A rid \in DOMAIN records : first.records[rid] = records[rid]
            /\ \A second \in {check_compliance(first.suppliers, first.records,
                                               first.next_record_id,
                                               [supplier_id |-> supplier_id,
                                                compliance_data |-> compliance_data],
                                               ai_raw, StorageOk)} :
                  /\ second.response.code = 200
                  /\ RecordCount(second.records, supplier_id)
                        = RecordCount(records, supplier_id) + 2 * Len(compliance_data)

\* the same observation has been ingested twice for one supplier: two equal rows
C26_Witness ==
    /\ last = "check_compliance"
    /\ DOMAIN records = {1, 2}
    /\ records[1] = records[2]
    /\ records[1].ai_analysis # None

(***************************************************************************)
(* C27: every record that check_weather_impact reclassifies to             *)
(* excused-weather is dated the delivery_date whose weather was examined,  *)
(* when the records are selected by date and when one record is named by   *)
(* its id.                                                                 *)
(* Refuted: the query by id (suppliers.py:191-194) does not look at the    *)
(* record's date.                                                          *)
(***************************************************************************)
C27_ExcusedOnExaminedDate ==
    \A request \in AdjudicationRequests, w \in AdverseResults :
        \A out \in {Adjudicate(request, w)} :
            \A rid \in DOMAIN records :
                (/\ out.records[rid] # records[rid]
                 /\ out.records[rid].status = "excused-weather")
                => records[rid].date_recorded = ParsedDate(request.delivery_date)[1]

(***************************************************************************)
(* C28: the only verdict change ever made to a stored record is            *)
(* non-compliant to excused-weather: in every step a record whose verdict  *)
(* differs after the step held non-compliant before and holds              *)
(* excused-weather after (so a compliant or excused-weather record keeps   *)
(* its verdict and a record is reclassified at most once); a step that    *)
(* changes records is a check_weather_impact call whose updated_records    *)
(* are exactly the records it reclassified, so a record is in the list of  *)
(* at most one call.                                                       *)
(***************************************************************************)
C28_VerdictChangesOnce ==
    [][/\ \A rid \in DOMAIN records \cap DOMAIN records' :
             records'[rid].status # records[rid].status
             => /\ records[rid].status = "non-compliant"
                /\ records'[rid].status = "excused-weather"
       /\ last' = "check_weather_impact" /\ records' # records
          => \E call \in WeatherCalls :
                \E out \in {check_weather_impact(suppliers, records, call.request,
                                                 call.geo, call.weather_data)} :
                    /\ out.records = records'
                    /\ out.response.status_updated
                    /\ {u.id : u \in out.response.updated_records}
                          = {rid \in DOMAIN records :
                                /\ records[rid].status = "non-compliant"
                                /\ records'[rid].status = "excused-weather"}
                    /\ \A u \in out.response.updated_records : u.row = records'[u.id]]_vars

\* an adjudication reclassified the second record while the first, stored
\* before it, held compliant or a caller-given excused-weather
C28_Witness ==
    /\ last = "check_weather_impact"
    /\ DOMAIN records = {1, 2}
    /\ records[1].supplier_id = records[2].supplier_id
    /\ records[1].date_recorded = records[2].date_recorded
    /\ records[1].status \in {"compliant", "excused-weather"}
    /\ records[1].weather_data = None
    /\ records[2].status = "excused-weather"
    /\ records[2].weather_data # None

(***************************************************************************)
(* C29: in every reachable state every stored record whose metric is,      *)
(* whatever the case of its letters, delivery_time, lead_time,             *)
(* quality_score or quality_rating and whose expected_value is present has *)
(* a verdict that follows the comparison: compliant iff result <= expected *)
(* (the first two) or result >= expected (the last two), and otherwise     *)
(* non-compliant or excused-weather; for records of check_compliance and   *)
(* of create_compliance_record.                                            *)
(* Refuted: create_compliance_record stores the caller's status as given.  *)
(***************************************************************************)
C29_StoredVerdictsFollowPolicy ==
    \A rid \in DOMAIN records :
        \A row \in {records[rid]} :
            (/\ row.expected_value # None
             /\ str_lower(row.metric) \in {delivery_time, lead_time, quality_score, quality_rating})
            => LET holds == IF str_lower(row.metric) \in {delivery_time, lead_time}
                            THEN row.result <= row.expected_value[1]
                            ELSE row.result >= row.expected_value[1]
               IN  /\ (row.status = "compliant") <=> holds
                   /\ ~holds => row.status \in {"non-compliant", "excused-weather"}

\* the records get_insights analyses: those of the supplier asked for (or of
\* every supplier) recorded on or after start_date
AnalysedRecords(supplier_id, start_date) ==
    {rid \in DOMAIN records :
        /\ supplier_id # None => records[rid].supplier_id = supplier_id[1]
        /\ records[rid].supplier_id \in DOMAIN suppliers
        /\ \/ records[rid].date_recorded.year > start_date.year
           \/ /\ records[rid].date_recorded.year = start_date.year
              /\ records[rid].date_recorded.month > start_date.month
           \/ /\ records[rid].date_recorded.year = start_date.year
              /\ records[rid].date_recorded.month = start_date.month
              /\ records[rid].date_recorded.day >= start_date.day}

(***************************************************************************)
(* C30: in the compliance trends of get_insights, compliant_records +      *)
(* non_compliant_records = total_records_analyzed, and                     *)
(* non_compliant_records is the number of analysed records whose verdict   *)
(* is non-compliant: records excused for weather are not counted.          *)
(* Refuted: non_compliant_records is total_records - compliant_records.    *)
(***************************************************************************)
C30_TrendCounts ==
    \A supplier_id \in {None} \cup {Some(id) : id \in DOMAIN suppliers}, start_date \in {D1, D2} :
        \A out \in {get_insights(suppliers, records, supplier_id, start_date, "insights")} :
            /\ out.response.code = 200
            /\ out.response.compliance_trends # None =>
                  \A trends \in {out.response.compliance_trends[1]} :
                      /\ trends.total_records_analyzed
                            = Cardinality(AnalysedRecords(supplier_id, start_date))
                      /\ trends.compliant_records + trends.non_compliant_records
                            = trends.total_records_analyzed
                      /\ trends.compliant_records
                            = Cardinality({rid \in AnalysedRecords(supplier_id, start_date) :
                                              records[rid].status = "compliant"})
                      /\ trends.non_compliant_records
                            = Cardinality({rid \in AnalysedRecords(supplier_id, start_date) :
                                              records[rid].status = "non-compliant"})

====
